---- MODULE Spec2Model ----
(***************************************************************************)
(* A model of astrbot_plugin_chatsummary: the by-duration / by-count       *)
(* history retrieval (services/message_retriever.py), the summarization    *)
(* retry loop (services/llm_service.py), the summary orchestrator          *)
(* (services/summary_orchestrator.py), the caption service, the transcript *)
(* formatter (services/message_formatter.py), the parsing of the argument  *)
(* (utils, services/summary_service.py) and the scheduled run              *)
(* (services/scheduler_service.py).                                        *)
(***************************************************************************)
EXTENDS Integers, Sequences, FiniteSets, TLC

(***************************************************************************)
(* Bounds of the model.                                                    *)
(***************************************************************************)
\* largest simulated group history (number of stored messages)
MaxStore == 250
\* number of consecutive messages that share one timestamp tick
TimeStep == 10
\* distance between two consecutive message_seq values (ids are not contiguous)
SeqGap == 2
\* cap on the batch requests of one by-duration retrieval
MaxRequests == 5
\* largest count asked of get_messages_by_count
MaxCount == 30
\* largest configured summary_max_retries
MaxRetriesCfg == 2
\* largest configured summary_retry_delay (seconds)
MaxDelayCfg == 2
\* longest message list handed to the orchestrator
MaxChat == 2
\* number of callers of get_image_description that may run concurrently
MaxTasks == 2
\* number of distinct image URLs
MaxUrls == 3
\* largest configured image_description_cache_size
MaxCacheSize == 2
\* largest configured max_concurrent_image_requests
MaxConcurrent == 2
\* cap on the get_image_description calls of one behaviour
MaxCaptionCalls == 3
\* most blanks before and after a transcript or a failure reason
MaxPad == 1
\* how far below and above the excerpt bound the transcript lengths go
Near == 2
\* longest run of blanks inside a transcript, and longest tail after it
MaxGap == 2
\* longest list of messages handed to format_messages, any parts
MaxMsgs == 2
\* longest batch of plain text messages handed to format_messages
MaxBatch == 10
\* deepest nesting of forwards handed to format_messages
MaxNest == 17
\* longest argument of get_messages_by_arg tried with every character
MaxArgLen == 3
\* largest configured scheduled_summary_max_attempts
MaxAttemptsCfg == 3
\* largest summary_max_retries of a scheduled run
MaxSchedRetries == 2

(***************************************************************************)
(* State of one retrieval request.                                         *)
(***************************************************************************)
VARIABLES
    rmode,              \* "time": get_messages_by_time, "count": get_messages_by_count
    storeSize,          \* number of messages the platform holds for the group
    target_start_time,  \* datetime.now() - time_delta
    count,              \* the count argument of get_messages_by_count
    rpc,                \* "loop": in the while loop / before the call, "done": returned,
                        \* "cancelled": left by CancelledError
    last_msg_seq,       \* the cursor
    all_messages,       \* the accumulated list (newest first)
    retrieved,          \* the returned list
    requests,           \* the message_seq sent with each batch request so far
    batchLens,          \* the length of the answer to each request (-1: none came)
    failed              \* a request raised

rvars == <<rmode, storeSize, target_start_time, count, rpc, last_msg_seq,
           all_messages, retrieved, requests, batchLens, failed>>

(***************************************************************************)
(* State of one summary request.                                           *)
(***************************************************************************)
VARIABLES
    messages_arg,       \* the messages argument: <<>> is None, <<l>> is the iterable l
    message_list,       \* self._ensure_list(messages)
    enable_image_description, \* the captioning toggle of the configuration
    summary_max_retries,
    summary_retry_delay,
    raise_on_failure,
    html_renderer_template, \* the template name of the group's configuration
    llm_image_request_delay, \* self.llm_service.image_request_delay
    opc,                \* "start", "caption_sleep" (in format_messages, at
                        \* the asyncio.sleep of get_image_description),
                        \* "caption_chat" (in format_messages, at the
                        \* text_chat of get_image_description), "llm" (at
                        \* text_chat), "sleep" (at the asyncio.sleep before
                        \* a retry), "render", "render_fallback", "done",
                        \* "raised"
    captions_done,      \* the image parts the running format_messages has
                        \* its description of
    pass,               \* 1: first summarization, 2: the captioning-disabled one
    attempt,            \* get_summary's loop variable
    calls,              \* model calls so far: [pass, attempt, wait, outcome]
    formats,            \* format_messages calls so far: [llm, captions]
    current_formatted_chat,
    summary,
    degrade_info,       \* <<>> is None, else <<[error, rate_limited]>>
    renders,            \* renderer calls so far: [renderer, text, ok]
    raised,             \* "" or the error the request raised
    raised_error        \* <<>> or <<[user_message, rate_limited]>>: what the
                        \* SummaryGenerationError carries

svars == <<messages_arg, message_list, enable_image_description, summary_max_retries,
           summary_retry_delay, raise_on_failure, html_renderer_template,
           llm_image_request_delay, opc, captions_done, pass, attempt, calls, formats, current_formatted_chat, summary,
           degrade_info, renders, raised, raised_error>>

(***************************************************************************)
(* State of one LLMService instance and of the callers of its              *)
(* get_image_description.                                                  *)
(***************************************************************************)
VARIABLES
    svc_enable_image_description, \* self.enable_image_description
    cache_size,         \* self._cache_size
    max_concurrent_image_requests,
    image_request_delay,
    image_cache,        \* self._image_cache, in the dict's iteration order
    image_semaphore,    \* self._image_semaphore._value
    sem_waiters,        \* self._image_semaphore._waiters: the tasks whose
                        \* acquire has not returned, in the order they came
    cache_hits,         \* self._cache_hits
    cache_misses,       \* self._cache_misses
    failed_requests,    \* self._failed_requests
    task,               \* per caller: where it is in get_image_description,
                        \* its URL, and how and with what its last call ended
    ncalls,             \* get_image_description calls so far
    backend_calls,      \* per URL: provider.text_chat calls issued so far
    sleeps,             \* asyncio.sleep(image_request_delay) calls so far
    insertions,         \* new keys put into the cache so far
    entry_log,          \* per URL: when its present entry was inserted (0: not
                        \* cached) and how often that entry was hit
    evictions           \* the entries deleted so far: [url, stamp, hits]

cvars == <<svc_enable_image_description, cache_size,
           max_concurrent_image_requests, image_request_delay, image_cache,
           image_semaphore, sem_waiters, cache_hits, cache_misses,
           failed_requests, task, ncalls, backend_calls, sleeps, insertions,
           entry_log, evictions>>

(***************************************************************************)
(* State of one call of _build_failure_summary.  Texts are sequences of    *)
(* characters.                                                             *)
(***************************************************************************)
VARIABLES
    fpc,                \* "call": before the call, "done": it returned
    reason_arg,         \* the reason argument
    formatted_chat_arg, \* the formatted_chat argument (<<>> for None or "")
    failure_summary     \* the returned text

fvars == <<fpc, reason_arg, formatted_chat_arg, failure_summary>>

(***************************************************************************)
(* State of one call of format_messages.                                   *)
(***************************************************************************)
VARIABLES
    mpc,                \* "call": before the call, "formatting", "done": it returned
    messages_in,        \* the messages argument
    my_id,              \* the bot's own id
    wake_prefix,        \* self.config.wake_prefix
    llm_service,        \* "none", or the caption service: "describes" (with a
                        \* request delay), "describes_at_once" (without one)
    call_stack,         \* the calls of format_messages in progress, outermost
                        \* first: [messages, indent, done]
    caption_await,      \* where the innermost call waits in
                        \* get_image_description: "", "sleep", "text_chat"
    described_urls,     \* the URLs in the cache of the caption service
    returned,           \* the nested calls that returned: [messages, indent, text]
    transcript          \* the returned text

mvars == <<mpc, messages_in, my_id, wake_prefix, llm_service, call_stack,
           caption_await, described_urls, returned, transcript>>

(***************************************************************************)
(* State of one call of get_messages_by_arg.                               *)
(***************************************************************************)
VARIABLES
    apc,                \* "call", "parsed", "awaiting", "done", "raised"
    arg,                \* the argument
    time_delta,         \* what parse_time_delta returned
    store_requests,     \* the retrievals asked of the store
    answer,             \* the returned pair: messages and status message
    arg_error           \* the exception that left the call

avars == <<apc, arg, time_delta, store_requests, answer, arg_error>>

(***************************************************************************)
(* State of one call of _cleanup_summary.                                  *)
(***************************************************************************)
VARIABLES
    kpc,                \* "call": before the call, "done": it returned
    raw_summary,        \* the summary argument
    cleaned             \* the returned text

kvars == <<kpc, raw_summary, cleaned>>

\* One run of SchedulerService.create_and_send_scheduled_summary, from the
\* point where the messages are there.
VARIABLES
    dpc,                \* "call": before the routine runs; the await the
                        \* run is at: "loop" (the orchestrator), "sleep",
                        \* "render", "send_text", "send_image"; how it
                        \* ended: "done", "raised", "cancelled"
    configured_attempts, \* config.scheduled_summary_max_attempts
    sched_max_retries,  \* config.summary_max_retries
    sched_retry_delay,  \* config.summary_retry_delay
    max_attempts,
    sched_attempt,      \* the loop variable attempt
    orchestrator_calls, \* what each call of create_summary_with_image gave
    sched_waits,        \* the seconds of each asyncio.sleep
    last_error,
    sched_summary,      \* summary (<<>> for None)
    summary_image_url,  \* summary_image_url (<<>> for None)
    sent                \* the messages handed to the platform, in order

dvars == <<dpc, configured_attempts, sched_max_retries, sched_retry_delay,
           max_attempts, sched_attempt, orchestrator_calls, sched_waits,
           last_error, sched_summary, summary_image_url, sent>>

yvars == <<kvars, dvars>>

\* the state of the components added to the retrieval, the summary request
\* and the caption service
xvars == <<fvars, mvars, avars, yvars>>

vars == <<rvars, svars, cvars, xvars>>

(***************************************************************************)
(* Program constants.                                                      *)
(***************************************************************************)
\* "count": 100 in the get_group_msg_history payload
BatchSize == 100

Min(a, b) == IF a <= b THEN a ELSE b

\* reversed(xs)
Reverse(xs) == [i \in 1..Len(xs) |-> xs[Len(xs) + 1 - i]]

(***************************************************************************)
(* The message store (the platform's get_group_msg_history).  The i-th     *)
(* oldest message of a history has message_seq SeqGap*i; timestamps do not *)
(* decrease with message_seq and TimeStep neighbours share one.            *)
(***************************************************************************)
MsgAt(i) == [message_seq |-> SeqGap * i, time |-> (i - 1) \div TimeStep]

\* Index of the newest stored message at or before the cursor; cursor 0 is
\* the "most recent" sentinel.
NewestAtOrBefore(n, cursor) == IF cursor = 0 THEN n ELSE Min(n, cursor \div SeqGap)

\* Answer to {message_seq: cursor, count: cnt, reverseOrder: True}: the cnt
\* newest messages at or before the cursor, oldest first.
HistoryBatch(n, cursor, cnt) ==
    LET hi == NewestAtOrBefore(n, cursor)
        k  == Min(cnt, hi)
    IN  [j \in 1..k |-> MsgAt(hi - k + j)]

\* Answer to {count: cnt} without reverseOrder: the cnt newest messages,
\* newest first.
HistoryLatest(n, cnt) ==
    LET k == Min(cnt, n)
    IN  [j \in 1..k |-> MsgAt(n + 1 - j)]

(***************************************************************************)
(* MessageRetriever.get_messages_by_time: the scan of one batch.           *)
(***************************************************************************)
\* mutant: the batch-boundary message is never skipped
SkipOverlapNever(msg_seq, last) == FALSE

\* if msg_seq == last_msg_seq and last_msg_seq != 0: continue
SkipOverlap(msg_seq, last) == msg_seq = last /\ last # 0

\* mutant: a message exactly at the cutoff is treated as too old
BeforeWindowInclusive(msg_time, target) == msg_time <= target

\* if msg_time < target_start_time: breakFlag = True; break
BeforeWindow(msg_time, target) == msg_time < target

\* The body of `for msg in messages` for one message.  st.acc holds the
\* messages this batch appended, st.last is last_msg_seq, st.breakFlag says
\* that the loop was left by `break`.
ScanStep(st, msg, target) ==
    IF st.breakFlag THEN st
    ELSE IF SkipOverlap(msg.message_seq, st.last) THEN st
    ELSE IF BeforeWindow(msg.time, target)
    THEN [st EXCEPT !.breakFlag = TRUE]
    ELSE [acc |-> Append(st.acc, msg), last |-> msg.message_seq,
          breakFlag |-> FALSE]

\* The loop over msgs[lo..hi], in order, from state st (split in halves to
\* keep the evaluation shallow; the order of the iterations is the loop's,
\* and nothing is scanned after a break).
RECURSIVE ScanRange(_, _, _, _, _)
ScanRange(msgs, lo, hi, st, target) ==
    IF lo > hi THEN st
    ELSE IF lo = hi THEN ScanStep(st, msgs[lo], target)
    ELSE LET mid  == (lo + hi) \div 2
             left == ScanRange(msgs, lo, mid, st, target)
         IN  IF left.breakFlag THEN left
             ELSE ScanRange(msgs, mid + 1, hi, left, target)

\* for msg in reversed(messages): ...
ScanBatch(messages, last, target) ==
    ScanRange(Reverse(messages), 1, Len(messages),
              [acc |-> <<>>, last |-> last, breakFlag |-> FALSE], target)

(***************************************************************************)
(* MessageRetriever: one retrieval request.                                *)
(***************************************************************************)
\* timestamps of a history of n messages lie in 0..LastTick(n)
LastTick(n) == IF n = 0 THEN 0 ELSE (n - 1) \div TimeStep

RetrInit ==
    /\ rmode \in {"time", "count"}
    /\ storeSize \in 0..MaxStore
    /\ IF rmode = "time"
       THEN /\ target_start_time \in 0..(LastTick(storeSize) + 1)
            /\ count = 0
       ELSE /\ target_start_time = 0
            /\ count \in 1..MaxCount
    /\ rpc = "loop"
    /\ last_msg_seq = 0
    /\ all_messages = <<>>
    /\ retrieved = <<>>
    /\ requests = <<>>
    /\ batchLens = <<>>
    /\ failed = FALSE

\* mutant: the failure of a batch request discards what was accumulated
BatchRequestFailsDropsAll ==
    /\ rmode = "time"
    /\ rpc = "loop"
    /\ Len(requests) < MaxRequests
    /\ requests' = Append(requests, last_msg_seq)
    /\ batchLens' = Append(batchLens, -1)
    /\ failed' = TRUE
    /\ rpc' = "done"
    /\ retrieved' = <<>>
    /\ all_messages' = <<>>
    /\ UNCHANGED <<rmode, storeSize, target_start_time, count, last_msg_seq>>
    /\ UNCHANGED <<svars, cvars, xvars>>

\* One iteration of the while loop whose call_action raises: break, then
\* return reversed(all_messages).
BatchRequestFails ==
    /\ rmode = "time"
    /\ rpc = "loop"
    /\ Len(requests) < MaxRequests
    /\ requests' = Append(requests, last_msg_seq)
    /\ batchLens' = Append(batchLens, -1)
    /\ failed' = TRUE
    /\ rpc' = "done"
    /\ retrieved' = Reverse(all_messages)
    /\ UNCHANGED <<rmode, storeSize, target_start_time, count, last_msg_seq,
                   all_messages>>
    /\ UNCHANGED <<svars, cvars, xvars>>

\* mutant: the cancellation is caught like a failure of the request (as
\* `except Exception` did where CancelledError was an Exception) and the
\* accumulated messages are returned
BatchRequestCancelledReturnsPartial ==
    /\ rmode = "time"
    /\ rpc = "loop"
    /\ Len(requests) < MaxRequests
    /\ requests' = Append(requests, last_msg_seq)
    /\ batchLens' = Append(batchLens, -1)
    /\ rpc' = "cancelled"
    /\ retrieved' = Reverse(all_messages)
    /\ UNCHANGED <<rmode, storeSize, target_start_time, count, last_msg_seq,
                   all_messages, failed>>
    /\ UNCHANGED <<svars, cvars, xvars>>

\* One iteration of the while loop whose task is cancelled while it awaits
\* call_action: CancelledError is no Exception, so `except Exception` lets
\* it pass and it leaves get_messages_by_time; nothing is returned, and
\* all_messages, a local, stays what it was when the call was left.
BatchRequestCancelled ==
    /\ rmode = "time"
    /\ rpc = "loop"
    /\ Len(requests) < MaxRequests
    /\ requests' = Append(requests, last_msg_seq)
    /\ batchLens' = Append(batchLens, -1)
    /\ rpc' = "cancelled"
    /\ UNCHANGED <<rmode, storeSize, target_start_time, count, last_msg_seq,
                   all_messages, retrieved, failed>>
    /\ UNCHANGED <<svars, cvars, xvars>>

\* One iteration of the while loop whose call_action answers.
BatchRequestAnswers ==
    /\ rmode = "time"
    /\ rpc = "loop"
    /\ Len(requests) < MaxRequests
    /\ LET messages == HistoryBatch(storeSize, last_msg_seq, BatchSize)
           scan     == ScanBatch(messages, last_msg_seq, target_start_time)
       IN  /\ requests' = Append(requests, last_msg_seq)
           /\ batchLens' = Append(batchLens, Len(messages))
           /\ IF messages = <<>>
              THEN /\ rpc' = "done"
                   /\ retrieved' = Reverse(all_messages)
                   /\ UNCHANGED <<all_messages, last_msg_seq>>
              ELSE /\ all_messages' = all_messages \o scan.acc
                   /\ last_msg_seq' = scan.last
                   /\ IF scan.breakFlag
                      THEN /\ rpc' = "done"
                           /\ retrieved' = Reverse(all_messages')
                      ELSE /\ rpc' = "loop"
                           /\ retrieved' = retrieved
    /\ UNCHANGED <<rmode, storeSize, target_start_time, count, failed>>
    /\ UNCHANGED <<svars, cvars, xvars>>

\* get_messages_by_count whose call_action raises: return [].
CountRequestFails ==
    /\ rmode = "count"
    /\ rpc = "loop"
    /\ requests' = Append(requests, 0)
    /\ batchLens' = Append(batchLens, -1)
    /\ failed' = TRUE
    /\ rpc' = "done"
    /\ retrieved' = <<>>
    /\ UNCHANGED <<rmode, storeSize, target_start_time, count, last_msg_seq,
                   all_messages>>
    /\ UNCHANGED <<svars, cvars, xvars>>

\* get_messages_by_count whose call_action answers: return ret.get("messages").
CountRequestAnswers ==
    /\ rmode = "count"
    /\ rpc = "loop"
    /\ LET messages == HistoryLatest(storeSize, count)
       IN  /\ requests' = Append(requests, 0)
           /\ batchLens' = Append(batchLens, Len(messages))
           /\ retrieved' = messages
    /\ rpc' = "done"
    /\ UNCHANGED <<rmode, storeSize, target_start_time, count, last_msg_seq,
                   all_messages, failed>>
    /\ UNCHANGED <<svars, cvars, xvars>>

(***************************************************************************)
(* LLMService.get_summary: the retry loop.  A model call (text_chat) ends  *)
(* in one of these ways:                                                   *)
(*   "ok"        a completion is returned                                  *)
(*   "empty"     the "nothing parsed" marker is returned as the completion *)
(*   "ratelimit" it raises with "429" / "Request limit exceeded" /         *)
(*               "rate limit" in the message                               *)
(*   "transient" it raises another provider error                         *)
(*   "unknown"   it raises an error of no known kind                       *)
(*   "limit_error" it raises an instance of LLMRateLimitError, the class   *)
(*               the orchestrator imports from llm_service                 *)
(*               (summary_orchestrator.py lines 8-12), with none of the    *)
(*               three texts in the message                                *)
(***************************************************************************)
Outcomes == {"ok", "empty", "ratelimit", "transient", "unknown", "limit_error"}

\* if "429" in error_msg or "Request limit exceeded" in error_msg or ...
IsRateLimit(outcome) == outcome = "ratelimit"

\* if attempt < max_retries: continue
MayRetry(att, max_retries) == att < max_retries

\* mutant: the delay does not grow
WaitTimeFlat(retry_delay, att) ==
    IF att > 0 THEN retry_delay ELSE 0

\* wait_time = retry_delay * (2 ** (attempt - 1)), only if attempt > 0
WaitTime(retry_delay, att) ==
    IF att > 0 THEN retry_delay * (2 ^ (att - 1)) ELSE 0

\* One iteration of `for attempt in range(max_retries + 1)` whose model call
\* ended with `outcome`: "return" (the completion), "retry" (continue),
\* "raise_limit" (the request-limit error after the last attempt) or
\* "raise" (the error itself, at once).
GetSummaryStep(att, max_retries, outcome) ==
    IF outcome \in {"ok", "empty"} THEN "return"
    ELSE IF IsRateLimit(outcome)
         THEN IF MayRetry(att, max_retries) THEN "retry" ELSE "raise_limit"
         ELSE "raise"

\* mutant: every error that leaves get_summary is taken by the first except
\* clause of the orchestrator
ErrorClassFirstClause(step, outcome) == "LLMRateLimitError"

\* The class of the error that leaves get_summary, as the except clauses of
\* the orchestrator see it (summary_orchestrator.py lines 91, 106, 113).
\* Line 91 of get_summary raises a plain Exception after the last
\* rate-limited attempt, whatever the provider raised; line 95 raises the
\* provider's error again as it is.  get_summary creates none of the typed
\* errors the orchestrator names, so `except LLMRateLimitError` takes an
\* error only when the provider call itself raised an instance of that
\* class, and `except Exception` takes every other one.
ErrorClass(step, outcome) ==
    IF step = "raise" /\ outcome = "limit_error" THEN "LLMRateLimitError"
    ELSE "Exception"

(***************************************************************************)
(* MessageFormatter.format_messages as the orchestrator sees it.  A        *)
(* message is one of: "text" (a text part of another sender), "image" (an  *)
(* image part with an http(s) URL of another sender), "own" (sent by the   *)
(* bot itself), "wake" (text that starts with a wake prefix), "sticker"    *)
(* (an image part whose summary is the animated-sticker marker),           *)
(* "image_file" (an image part whose url is no http(s) URL).               *)
(***************************************************************************)
MsgKinds == {"text", "image", "sticker", "image_file", "own", "wake"}

ImageKinds == {"image", "sticker", "image_file"}

\* _handle_image_part: the marker of an animated sticker is returned as it
\* is; with an LLM service and an http(s) URL the caption service is called
\* once for the part; otherwise the literal placeholder is used.
HandleImagePart(kind, llm) ==
    IF kind = "sticker" THEN [text |-> "[animated sticker]", captions |-> 0]
    ELSE IF llm /\ kind = "image"
    THEN [text |-> "[image: description]", captions |-> 1]
    ELSE [text |-> "[image]", captions |-> 0]

\* the lines of the transcript and the number of caption-service calls
FormatMessages(messages, llm) ==
    LET kept == SelectSeq(messages, LAMBDA k : k \in {"text"} \cup ImageKinds)
        part(k) == IF k \in ImageKinds THEN HandleImagePart(k, llm)
                   ELSE [text |-> "text", captions |-> 0]
        caps[i \in 0..Len(kept)] ==
            IF i = 0 THEN 0 ELSE caps[i - 1] + part(kept[i]).captions
    IN  [chat |-> [i \in 1..Len(kept) |-> part(kept[i]).text],
         captions |-> caps[Len(kept)]]

(***************************************************************************)
(* SummaryOrchestrator.create_summary_with_image                           *)
(***************************************************************************)
NoSummary == [kind |-> "none", reason |-> "", chat |-> <<>>, notes |-> <<>>]

\* _build_failure_summary(reason, formatted_chat): the apology header, the
\* reason and the excerpt of the transcript
BuildFailureSummary(reason, chat) ==
    [kind |-> "failure", reason |-> reason, chat |-> chat, notes |-> <<>>]

ModelSummary(outcome) ==
    [kind |-> IF outcome = "empty" THEN "model_empty" ELSE "model",
     reason |-> "", chat |-> <<>>, notes |-> <<>>]

FixedSummary(kind) == [kind |-> kind, reason |-> "", chat |-> <<>>, notes |-> <<>>]

\* mutant: the typed error is raised whenever a failure was recorded
ShouldRaiseAlways(raise_flag, info) == info # <<>>

\* if raise_on_failure and degrade_info is not None
ShouldRaise(raise_flag, info) == raise_flag /\ info # <<>>

\* the message lists of at most n messages
ChatsUpTo(n) == UNION {[1..k -> MsgKinds] : k \in 0..n}

\* _ensure_list: None becomes the empty list
EnsureList(msgs) == IF msgs = <<>> THEN <<>> ELSE msgs[1]

\* mutant: the empty list is formatted and summarized like any other
NoMessagesNever(list) == FALSE

\* if not message_list
NoMessages(list) == list = <<>>

\* mutant: the empty transcript is handed to the model
NoTranscriptNever(formatted_chat) == FALSE

\* if not formatted_chat
NoTranscript(formatted_chat) == formatted_chat = <<>>

\* raise SummaryGenerationError(error_message, user_message=cleaned_summary,
\*                              rate_limited=rate_limited)
SummaryGenerationError(info, cleaned_summary) ==
    [message |-> info.error, user_message |-> cleaned_summary,
     rate_limited |-> info.rate_limited]

\* the template names a group may have: its own html_renderer_template or
\* config.default_html_template
Templates == {"default", "custom"}

\* mutant: the local renderer is given a text other than the summary
LocalRenderStale(text, template, ok) ==
    [renderer |-> "local", text |-> NoSummary, template |-> template, ok |-> ok]

\* renderer = ImageRenderer(template_name=html_template_name);
\* renderer.render(summary, group_id=...)
LocalRender(text, template, ok) ==
    [renderer |-> "local", text |-> text, template |-> template, ok |-> ok]

\* mutant: the remote renderer is called without the group's template
RenderT2iDefaultTemplate(text, template, ok) ==
    [renderer |-> "remote", text |-> text, template |-> "default", ok |-> ok]

\* html_renderer.render_t2i(summary, template_name=html_template_name)
RenderT2i(text, template, ok) ==
    [renderer |-> "remote", text |-> text, template |-> template, ok |-> ok]

\* image_request_delay: none, or some
Delays == {0, 1}

SumInit ==
    /\ messages_arg \in {<<>>} \cup {<<l>> : l \in ChatsUpTo(MaxChat)}
    /\ message_list = <<>>
    /\ enable_image_description \in BOOLEAN
    /\ summary_max_retries \in 0..MaxRetriesCfg
    /\ summary_retry_delay \in 1..MaxDelayCfg
    /\ raise_on_failure \in BOOLEAN
    /\ html_renderer_template \in Templates
    /\ llm_image_request_delay \in Delays
    /\ opc = "start"
    /\ captions_done = 0
    /\ pass = 0
    /\ attempt = 0
    /\ calls = <<>>
    /\ formats = <<>>
    /\ current_formatted_chat = <<>>
    /\ summary = NoSummary
    /\ degrade_info = <<>>
    /\ renders = <<>>
    /\ raised = ""
    /\ raised_error = <<>>

\* no summary request
SumIdle ==
    /\ messages_arg = <<>>
    /\ message_list = <<>>
    /\ enable_image_description = FALSE
    /\ summary_max_retries = 0
    /\ summary_retry_delay = 1
    /\ raise_on_failure = FALSE
    /\ html_renderer_template = "default"
    /\ llm_image_request_delay = 0
    /\ opc = "idle"
    /\ captions_done = 0
    /\ pass = 0
    /\ attempt = 0
    /\ calls = <<>>
    /\ formats = <<>>
    /\ current_formatted_chat = <<>>
    /\ summary = NoSummary
    /\ degrade_info = <<>>
    /\ renders = <<>>
    /\ raised = ""
    /\ raised_error = <<>>

\* no retrieval request
RetrIdle ==
    /\ rmode = "none"
    /\ storeSize = 0
    /\ target_start_time = 0
    /\ count = 0
    /\ rpc = "idle"
    /\ last_msg_seq = 0
    /\ all_messages = <<>>
    /\ retrieved = <<>>
    /\ requests = <<>>
    /\ batchLens = <<>>
    /\ failed = FALSE

\* llm_for_image = self._resolve_image_llm(group_config);
\* images_enabled = llm_for_image is not None
images_enabled == enable_image_description

\* Lines 121-139 up to the rendering: the notes are appended, the summary is
\* cleaned, and the typed error is raised if asked for.
Finish(text, notes, info, chat) ==
    /\ summary' = [text EXCEPT !.notes = notes]
    /\ degrade_info' = info
    /\ current_formatted_chat' = chat
    /\ IF ShouldRaise(raise_on_failure, info)
       THEN /\ opc' = "raised"
            /\ raised' = "SummaryGenerationError"
            /\ raised_error' = <<SummaryGenerationError(info[1], summary')>>
       ELSE /\ opc' = "render"
            /\ raised' = raised
            /\ raised_error' = raised_error

\* Lines 69-85: format_messages returned f; the empty transcript
\* short-circuits, anything else is handed to the model.
AfterFormat(f) ==
    /\ formats' = Append(formats, [llm |-> images_enabled,
                                   captions |-> f.captions])
    /\ IF NoTranscript(f.chat)
       THEN /\ Finish(FixedSummary("nothing_after_filtering"), <<>>,
                      <<>>, f.chat)
            /\ pass' = pass
       ELSE /\ opc' = "llm"
            /\ pass' = 1
            /\ current_formatted_chat' = f.chat
            /\ UNCHANGED <<summary, degrade_info, raised, raised_error>>

\* where get_image_description leaves to the event loop first: at
\* asyncio.sleep(self.image_request_delay) with a delay (llm_service.py
\* line 149), else at provider.text_chat (line 173)
CaptionAwait(delay) == IF delay > 0 THEN "caption_sleep" ELSE "caption_chat"

\* Lines 48-85 up to the first await: the empty list short-circuits;
\* anything else is formatted.  format_messages awaits
\* get_image_description for every image part that is captioned (each
\* image message has a URL of its own and the cache starts empty), and
\* goes on to the model without leaving when there is none.
StartSummary ==
    /\ opc = "start"
    /\ message_list' = EnsureList(messages_arg)
    /\ IF NoMessages(message_list')
       THEN /\ summary' = FixedSummary("no_messages")
            /\ opc' = "render"
            /\ UNCHANGED <<formats, current_formatted_chat, pass, degrade_info,
                           raised, raised_error>>
       ELSE LET f == FormatMessages(message_list', images_enabled) IN
            IF f.captions > 0
            THEN /\ opc' = CaptionAwait(llm_image_request_delay)
                 /\ UNCHANGED <<formats, current_formatted_chat, pass,
                                summary, degrade_info, raised, raised_error>>
            ELSE AfterFormat(f)
    /\ attempt' = 0
    /\ captions_done' = 0
    /\ UNCHANGED <<messages_arg, enable_image_description, summary_max_retries,
                   summary_retry_delay, raise_on_failure, html_renderer_template,
                   llm_image_request_delay, calls, renders>>
    /\ UNCHANGED <<rvars, cvars, xvars>>

\* asyncio.sleep(self.image_request_delay) in get_image_description is over
\* (llm_service.py lines 148-149): the task goes on to provider.text_chat
ImageDelayOver ==
    /\ opc = "caption_sleep"
    /\ opc' = "caption_chat"
    /\ UNCHANGED <<messages_arg, message_list, enable_image_description,
                   summary_max_retries, summary_retry_delay, raise_on_failure,
                   html_renderer_template, llm_image_request_delay,
                   captions_done, pass, attempt, calls, formats,
                   current_formatted_chat, summary, degrade_info, renders,
                   raised, raised_error>>
    /\ UNCHANGED <<rvars, cvars, xvars>>

\* provider.text_chat in get_image_description answered (llm_service.py
\* lines 173-194): _handle_image_part has its description, and
\* format_messages goes on to its next captioned image part or, behind the
\* last one, returns to line 69 of the orchestrator.
ImageDescribed ==
    /\ opc = "caption_chat"
    /\ captions_done' = captions_done + 1
    /\ LET f == FormatMessages(message_list, images_enabled) IN
       IF captions_done' < f.captions
       THEN /\ opc' = CaptionAwait(llm_image_request_delay)
            /\ UNCHANGED <<formats, current_formatted_chat, pass, summary,
                           degrade_info, raised, raised_error>>
       ELSE AfterFormat(f)
    /\ UNCHANGED <<messages_arg, message_list, enable_image_description,
                   summary_max_retries, summary_retry_delay, raise_on_failure,
                   html_renderer_template, llm_image_request_delay, attempt,
                   calls, renders>>
    /\ UNCHANGED <<rvars, cvars, xvars>>

\* _handle_rate_limit_retry lines 159-175: with captioning off the failure
\* summary is built, otherwise the transcript is formatted again without the
\* LLM service and summarized once more.
HandleRateLimitRetry(error_text) ==
    IF ~images_enabled
    THEN /\ Finish(BuildFailureSummary(error_text, current_formatted_chat),
                   <<>>, <<[error |-> error_text, rate_limited |-> TRUE]>>,
                   current_formatted_chat)
         /\ UNCHANGED <<formats, pass>>
         /\ attempt' = 0
    ELSE LET f == FormatMessages(message_list, FALSE) IN
         /\ formats' = Append(formats, [llm |-> FALSE, captions |-> f.captions])
         /\ pass' = 2
         /\ attempt' = 0
         /\ opc' = "llm"
         /\ current_formatted_chat' = f.chat
         /\ UNCHANGED <<summary, degrade_info, raised, raised_error>>

\* mutant: the summary of the second pass is handed back without the note
NotesAfterRetryNone(ending) ==
    IF ending = "success" THEN <<>>
    ELSE IF ending = "rate_limited"
    THEN <<"image description switched off", "still rate limited">>
    ELSE <<"image description switched off", "still no summary">>

\* The notes _handle_rate_limit_retry hands back with each of its endings:
\* line 169 alone when the second pass gave a summary (line 179), with the
\* line 186 note when it was rate limited again, with the line 195 or 204
\* note when it failed otherwise.
NotesAfterRetry(ending) ==
    LET note0 == "image description switched off" IN
    IF ending = "success" THEN <<note0>>
    ELSE IF ending = "rate_limited" THEN <<note0, "still rate limited">>
    ELSE <<note0, "still no summary">>

\* What the orchestrator does with the end of a get_summary call: lines
\* 86-119 for the first pass, lines 177-206 for the captioning-disabled one.
AfterGetSummary(step, outcome) ==
    LET class == ErrorClass(step, outcome) IN
    IF pass = 1
    THEN IF step = "return"
         THEN /\ Finish(ModelSummary(outcome), <<>>, <<>>, current_formatted_chat)
              /\ UNCHANGED <<formats, pass>>
              /\ attempt' = 0
         ELSE IF class = "LLMRateLimitError"
         THEN HandleRateLimitRetry(outcome)
         ELSE /\ Finish(BuildFailureSummary(outcome, current_formatted_chat),
                        <<>>, <<[error |-> outcome, rate_limited |-> FALSE]>>,
                        current_formatted_chat)
              /\ UNCHANGED <<formats, pass>>
              /\ attempt' = 0
    ELSE /\ UNCHANGED <<formats, pass>>
         /\ attempt' = 0
         /\ IF step = "return"
            THEN Finish(ModelSummary(outcome), NotesAfterRetry("success"), <<>>,
                        current_formatted_chat)
            ELSE IF class = "LLMRateLimitError"
            THEN Finish(BuildFailureSummary(outcome, current_formatted_chat),
                        NotesAfterRetry("rate_limited"),
                        <<[error |-> outcome, rate_limited |-> TRUE]>>,
                        current_formatted_chat)
            ELSE Finish(BuildFailureSummary(outcome, current_formatted_chat),
                        NotesAfterRetry("failed"),
                        <<[error |-> outcome, rate_limited |-> FALSE]>>,
                        current_formatted_chat)

\* asyncio.sleep(wait_time) before a retry is over (lines 63-66): the task
\* goes on to text_chat
RetrySleep ==
    /\ opc = "sleep"
    /\ opc' = "llm"
    /\ UNCHANGED <<messages_arg, message_list, enable_image_description,
                   summary_max_retries, summary_retry_delay, raise_on_failure,
                   html_renderer_template, llm_image_request_delay,
                   captions_done, pass, attempt, calls, formats,
                   current_formatted_chat, summary, degrade_info, renders,
                   raised, raised_error>>
    /\ UNCHANGED <<rvars, cvars, xvars>>

\* text_chat is over (lines 68-95): the completion is returned, or the error
\* is raised, or the loop goes on to the sleep before the next attempt; and
\* what the orchestrator does with the end of get_summary up to its next
\* await, the rendering.  wait is the sleep that came before this call.
ModelCall(outcome) ==
    /\ opc = "llm"
    /\ LET step == GetSummaryStep(attempt, summary_max_retries, outcome) IN
       /\ calls' = Append(calls, [pass |-> pass, attempt |-> attempt,
                                  wait |-> WaitTime(summary_retry_delay, attempt),
                                  outcome |-> outcome])
       /\ IF step = "retry"
          THEN /\ attempt' = attempt + 1
               /\ opc' = "sleep"
               /\ UNCHANGED <<pass, formats, current_formatted_chat,
                              summary, degrade_info, raised, raised_error>>
          ELSE AfterGetSummary(step, outcome)
    /\ UNCHANGED <<messages_arg, message_list, enable_image_description, summary_max_retries,
                   summary_retry_delay, raise_on_failure, html_renderer_template,
                   llm_image_request_delay, captions_done, renders>>
    /\ UNCHANGED <<rvars, cvars, xvars>>

\* _render_summary_image: the local renderer
RenderPrimary(ok) ==
    /\ opc = "render"
    /\ renders' = Append(renders,
                         LocalRender(summary, html_renderer_template, ok))
    /\ opc' = IF ok THEN "done" ELSE "render_fallback"
    /\ UNCHANGED <<messages_arg, message_list, enable_image_description, summary_max_retries,
                   summary_retry_delay, raise_on_failure, html_renderer_template,
                   llm_image_request_delay, captions_done, pass, attempt, calls,
                   formats, current_formatted_chat, summary, degrade_info,
                   raised, raised_error>>
    /\ UNCHANGED <<rvars, cvars, xvars>>

\* _render_summary_image: html_renderer.render_t2i after the local renderer
\* raised; its own error is not caught.
RenderFallback(ok) ==
    /\ opc = "render_fallback"
    /\ renders' = Append(renders,
                         RenderT2i(summary, html_renderer_template, ok))
    /\ opc' = IF ok THEN "done" ELSE "raised"
    /\ raised' = IF ok THEN raised ELSE "RenderError"
    /\ UNCHANGED <<messages_arg, message_list, enable_image_description, summary_max_retries,
                   summary_retry_delay, raise_on_failure, html_renderer_template,
                   llm_image_request_delay, captions_done, pass, attempt, calls,
                   formats, current_formatted_chat, summary, degrade_info,
                   raised_error>>
    /\ UNCHANGED <<rvars, cvars, xvars>>

(***************************************************************************)
(* LLMService._manage_cache and LLMService.get_image_description.  The     *)
(* callers are asyncio tasks: a task runs alone from one await to the      *)
(* next (the semaphore when no slot is free, the delay, the provider       *)
(* call).  Strings stand for the service's literals: "[image]" for the     *)
(* placeholder, "[image: d]" for the decorated description d.              *)
(***************************************************************************)
Tasks == 1..MaxTasks

Urls == 1..MaxUrls

\* an image_url that is no usable dictionary key: the cache lookup raises
BadUrl == 0

\* the literal returned on every failure
Placeholder == "[image]"

\* the "nothing parsed" marker of a completion
EmptyMarker == "(no readable content)"

\* what provider.text_chat may do: return a completion text or raise
BackendOutcomes ==
    {[raises |-> FALSE, text |-> c] : c \in {"a cat", "", EmptyMarker}}
    \cup {[raises |-> TRUE, text |-> e] :
              e \in {"429 Request limit exceeded", "timeout"}}

\* what get_using_provider gives: a provider that lists an image modality,
\* one that does not (or None), or an error
ProviderKinds == {"supported", "unsupported", "provider_error"}

\* mutant: the completion text is returned as it is
DescriptionResultRaw(description) == description

\* lines 183-190: the decorated description, or the placeholder for an empty
\* completion or the marker
DescriptionResult(description) ==
    IF description # "" /\ description # EmptyMarker
    THEN "[image: " \o description \o "]"
    ELSE Placeholder

\* mutant: the switch is ignored
CaptioningDisabledNever(enabled) == FALSE

\* if not self.enable_image_description
CaptioningDisabled(enabled) == ~enabled

CacheKeys(cache) == {cache[i].url : i \in 1..Len(cache)}

\* if image_url in self._image_cache
CacheHit(cache, url) == url \in CacheKeys(cache)

\* position of the entry of url in the dict's order, 0 if there is none
CacheIndex(cache, url) ==
    IF CacheHit(cache, url)
    THEN CHOOSE i \in 1..Len(cache) : cache[i].url = url
    ELSE 0

\* mutant: one entry more than the limit is tolerated
CacheOverflowsLate(len, size) == len > size + 1

\* if len(self._image_cache) > self._cache_size
CacheOverflows(len, size) == len > size

\* mutant: the newest key is deleted
FirstKeyNewest(cache) == cache[Len(cache)].url

\* first_key = next(iter(self._image_cache))
FirstKey(cache) == cache[1].url

\* mutant: whatever the description, the bare placeholder is stored
ManageCacheStoresPlaceholder(cache, size, url, description) ==
    LET idx == CacheIndex(cache, url)
        put == IF idx > 0
               THEN [cache EXCEPT ![idx].description = Placeholder]
               ELSE Append(cache, [url |-> url, description |-> Placeholder])
    IN  IF CacheOverflows(Len(put), size)
        THEN LET first_key == FirstKey(put)
             IN  [cache    |-> SelectSeq(put, LAMBDA e : e.url # first_key),
                  inserted |-> idx = 0,
                  evicted  |-> <<first_key>>]
        ELSE [cache |-> put, inserted |-> idx = 0, evicted |-> <<>>]

\* _manage_cache(url, description): the assignment keeps the place of a key
\* that is present and puts a new key last; then at most one key is
\* deleted.  inserted: the key was new; evicted: <<>> or <<the deleted key>>.
ManageCache(cache, size, url, description) ==
    LET idx == CacheIndex(cache, url)
        put == IF idx > 0
               THEN [cache EXCEPT ![idx].description = description]
               ELSE Append(cache, [url |-> url, description |-> description])
    IN  IF CacheOverflows(Len(put), size)
        THEN LET first_key == FirstKey(put)
             IN  [cache    |-> SelectSeq(put, LAMBDA e : e.url # first_key),
                  inserted |-> idx = 0,
                  evicted  |-> <<first_key>>]
        ELSE [cache |-> put, inserted |-> idx = 0, evicted |-> <<>>]

\* mutant: a slot is taken whether or not one is free
SlotFreeAlways(free, queue) == TRUE

\* `not self.locked()` in Semaphore.acquire: a slot is free and no task
\* waits for one; only then is `async with self._image_semaphore` entered
\* without waiting
SlotFree(free, queue) == free > 0 /\ queue = <<>>

\* Semaphore._wake_up_next: the first waiter whose future is not done is
\* given a slot (its future is set; it has not run yet)
WakeUpNext(tk, free, queue) ==
    LET pending == {i \in 1..Len(queue) : tk[queue[i]].pc = "acquire"} IN
    IF pending = {}
    THEN [task |-> tk, free |-> free]
    ELSE LET first == CHOOSE i \in pending : \A j \in pending : i <= j
         IN  [task |-> [tk EXCEPT ![queue[first]].pc = "granted"],
              free |-> free - 1]

\* Semaphore.release: self._value += 1; self._wake_up_next()
Release(tk, free, queue) == WakeUpNext(tk, free + 1, queue)

\* self._waiters.remove(fut)
WithoutWaiter(queue, t) == SelectSeq(queue, LAMBDA w : w # t)

\* except Exception (lines 210-214), the outermost guard: the failure is
\* counted, nothing propagates and the placeholder is returned
OuterExcept == [propagates |-> FALSE, result |-> Placeholder]

NoEntry == [stamp |-> 0, hits |-> 0]

IdleTask == [pc |-> "idle", url |-> BadUrl, result |-> "", how |-> "none"]

CapInit ==
    /\ svc_enable_image_description \in BOOLEAN
    /\ cache_size \in 0..MaxCacheSize
    /\ max_concurrent_image_requests \in 1..MaxConcurrent
    /\ image_request_delay \in Delays
    /\ image_cache = <<>>
    /\ image_semaphore = max_concurrent_image_requests
    /\ sem_waiters = <<>>
    /\ cache_hits = 0
    /\ cache_misses = 0
    /\ failed_requests = 0
    /\ task = [t \in Tasks |-> IdleTask]
    /\ ncalls = 0
    /\ backend_calls = [u \in Urls |-> 0]
    /\ sleeps = 0
    /\ insertions = 0
    /\ entry_log = [u \in Urls |-> NoEntry]
    /\ evictions = <<>>

\* no caption service in use
CapIdle ==
    /\ svc_enable_image_description = FALSE
    /\ cache_size = 0
    /\ max_concurrent_image_requests = 1
    /\ image_request_delay = 0
    /\ image_cache = <<>>
    /\ image_semaphore = 1
    /\ sem_waiters = <<>>
    /\ cache_hits = 0
    /\ cache_misses = 0
    /\ failed_requests = 0
    /\ task = [t \in Tasks |-> IdleTask]
    /\ ncalls = 0
    /\ backend_calls = [u \in Urls |-> 0]
    /\ sleeps = 0
    /\ insertions = 0
    /\ entry_log = [u \in Urls |-> NoEntry]
    /\ evictions = <<>>

capconfig == <<svc_enable_image_description, cache_size,
               max_concurrent_image_requests, image_request_delay>>

\* the tasks once the call of task t for url has returned result
Returned(tk, t, url, result, how) ==
    [tk EXCEPT ![t] = [pc |-> "idle", url |-> url,
                       result |-> result, how |-> how]]

\* the tasks once task t is inside get_image_description(url), at the await
\* named pc
Awaiting(tk, t, url, pc) ==
    [tk EXCEPT ![t] = [pc |-> pc, url |-> url, result |-> "", how |-> "none"]]

\* the call of task t for url returns result
Returns(t, url, result, how) ==
    task' = Returned(task, t, url, result, how)

\* task t is inside get_image_description(url), at the await named pc
Awaits(t, url, pc) ==
    task' = Awaiting(task, t, url, pc)

\* self._manage_cache(image_url, result), with the record of what it did
Cached(url, result) ==
    LET m     == ManageCache(image_cache, cache_size, url, result)
        stamp == insertions + 1
        log1  == IF m.inserted
                 THEN [entry_log EXCEPT ![url] = [stamp |-> stamp, hits |-> 0]]
                 ELSE entry_log
    IN  /\ image_cache' = m.cache
        /\ insertions' = IF m.inserted THEN stamp ELSE insertions
        /\ IF m.evicted = <<>>
           THEN /\ entry_log' = log1
                /\ evictions' = evictions
           ELSE LET e == m.evicted[1]
                IN  /\ evictions' = Append(evictions,
                                        [url |-> e, stamp |-> log1[e].stamp,
                                         hits |-> log1[e].hits])
                    /\ entry_log' = [log1 EXCEPT ![e] = NoEntry]

\* Lines 196-209, the inner except: the failure is not retried, its result is
\* the placeholder, and _manage_cache stores it under the URL.
CacheFailureForgets(url) ==
    UNCHANGED <<image_cache, insertions, entry_log, evictions>>

CacheFailure(url) ==
    Cached(url, Placeholder)

\* Lines 151-178 and 196-209, run by a task that holds a slot, with the
\* tasks tk, the semaphore's value free and its waiters queue: the provider
\* is looked up and either the call is issued or the placeholder is cached
\* and returned, which releases the slot.
ProviderStep(t, url, kind, tk, free, queue) ==
    /\ sem_waiters' = queue
    /\ IF kind = "supported"
       THEN /\ task' = Awaiting(tk, t, url, "calling")
            /\ backend_calls' = [backend_calls EXCEPT ![url] = @ + 1]
            /\ image_semaphore' = free
            /\ UNCHANGED <<image_cache, insertions, entry_log, evictions,
                           failed_requests>>
       ELSE /\ IF kind = "provider_error"
               THEN CacheFailure(url)
               ELSE Cached(url, Placeholder)
            /\ LET released == Release(Returned(tk, t, url, Placeholder, kind),
                                       free, queue)
               IN  /\ task' = released.task
                   /\ image_semaphore' = released.free
            /\ failed_requests' = IF kind = "provider_error"
                                  THEN failed_requests + 1
                                  ELSE failed_requests
            /\ UNCHANGED backend_calls

\* Lines 146-149, run by a task that has just got its slot: it runs on to
\* its next await, the delay if one is configured, else the provider call.
Enter(t, url, kind, tk, free, queue) ==
    IF image_request_delay > 0
    THEN /\ task' = Awaiting(tk, t, url, "sleep")
         /\ image_semaphore' = free
         /\ sem_waiters' = queue
         /\ sleeps' = sleeps + 1
         /\ UNCHANGED <<image_cache, insertions, entry_log, evictions,
                        failed_requests, backend_calls>>
    ELSE /\ ProviderStep(t, url, kind, tk, free, queue)
         /\ sleeps' = sleeps

\* get_image_description from the call to its first await or its return
\* (lines 132-149): the switch, the cache lookup, the miss counter, and the
\* semaphore, which is entered at once if it is not locked (acquire does
\* not suspend then); otherwise the task joins the waiters.
CaptionCall(t, url, kind) ==
    /\ task[t].pc = "idle"
    /\ ncalls < MaxCaptionCalls
    /\ ncalls' = ncalls + 1
    /\ IF CaptioningDisabled(svc_enable_image_description)
       THEN /\ Returns(t, url, Placeholder, "disabled")
            /\ UNCHANGED <<cache_hits, cache_misses, failed_requests,
                           entry_log, image_cache, image_semaphore,
                           sem_waiters, backend_calls, sleeps, insertions,
                           evictions>>
       ELSE IF url = BadUrl
       THEN \* the lookup raises; the outermost except returns the placeholder
            /\ task' = [task EXCEPT ![t] =
                   [pc |-> IF OuterExcept.propagates THEN "raised" ELSE "idle",
                    url |-> url, result |-> OuterExcept.result,
                    how |-> "unexpected"]]
            /\ failed_requests' = failed_requests + 1
            /\ UNCHANGED <<cache_hits, cache_misses, entry_log, image_cache,
                           image_semaphore, sem_waiters, backend_calls, sleeps,
                           insertions, evictions>>
       ELSE IF CacheHit(image_cache, url)
       THEN /\ cache_hits' = cache_hits + 1
            /\ Returns(t, url,
                       image_cache[CacheIndex(image_cache, url)].description,
                       "hit")
            /\ entry_log' = [entry_log EXCEPT ![url].hits = @ + 1]
            /\ UNCHANGED <<cache_misses, failed_requests, image_cache,
                           image_semaphore, sem_waiters, backend_calls, sleeps,
                           insertions, evictions>>
       ELSE /\ cache_misses' = cache_misses + 1
            /\ cache_hits' = cache_hits
            /\ IF SlotFree(image_semaphore, sem_waiters)
               THEN Enter(t, url, kind, task, image_semaphore - 1, sem_waiters)
               ELSE /\ Awaits(t, url, "acquire")
                    /\ sem_waiters' = Append(sem_waiters, t)
                    /\ UNCHANGED <<failed_requests, entry_log, image_cache,
                                   image_semaphore, backend_calls, sleeps,
                                   insertions, evictions>>
    /\ UNCHANGED capconfig
    /\ UNCHANGED <<rvars, svars, xvars>>

\* A task that waited for the semaphore and was given a slot by a release
\* runs again (line 146, the end of Semaphore.acquire): it leaves the
\* waiters, wakes the next waiter if a slot is free, and goes on.
Acquire(t, kind) ==
    /\ task[t].pc = "granted"
    /\ LET queue == WithoutWaiter(sem_waiters, t)
           woken == IF image_semaphore > 0
                    THEN WakeUpNext(task, image_semaphore, queue)
                    ELSE [task |-> task, free |-> image_semaphore]
       IN  Enter(t, task[t].url, kind, woken.task, woken.free, queue)
    /\ UNCHANGED <<capconfig, cache_hits, cache_misses, ncalls>>
    /\ UNCHANGED <<rvars, svars, xvars>>

\* asyncio.sleep(self.image_request_delay) is over (line 149)
AfterDelay(t, kind) ==
    /\ task[t].pc = "sleep"
    /\ ProviderStep(t, task[t].url, kind, task, image_semaphore, sem_waiters)
    /\ UNCHANGED <<capconfig, cache_hits, cache_misses, ncalls, sleeps>>
    /\ UNCHANGED <<rvars, svars, xvars>>

\* provider.text_chat is over (lines 173-209): the result is built, cached
\* and returned, and the slot is released.
BackendReturns(t, outcome) ==
    /\ task[t].pc = "calling"
    /\ LET result == IF outcome.raises THEN Placeholder
                     ELSE DescriptionResult(outcome.text)
           how    == IF outcome.raises THEN "raised"
                     ELSE IF outcome.text \in {"", EmptyMarker}
                     THEN "empty" ELSE "described"
           released == Release(Returned(task, t, task[t].url, result, how),
                               image_semaphore, sem_waiters)
       IN  /\ IF outcome.raises
              THEN /\ failed_requests' = failed_requests + 1
                   /\ CacheFailure(task[t].url)
              ELSE /\ failed_requests' = failed_requests
                   /\ Cached(task[t].url, result)
           /\ task' = released.task
           /\ image_semaphore' = released.free
    /\ UNCHANGED <<capconfig, sem_waiters, cache_hits, cache_misses, ncalls,
                   sleeps, backend_calls>>
    /\ UNCHANGED <<rvars, svars, xvars>>

\* mutant: a cancelled call keeps its slot
CancelCaptionKeepsSlot(t) ==
    /\ task[t].pc \in {"acquire", "granted", "sleep", "calling"}
    /\ task' = Returned(task, t, task[t].url, "", "cancelled")
    /\ sem_waiters' = WithoutWaiter(sem_waiters, t)
    /\ UNCHANGED <<capconfig, image_cache, image_semaphore, cache_hits,
                   cache_misses, failed_requests, ncalls, backend_calls,
                   sleeps, insertions, entry_log, evictions>>
    /\ UNCHANGED <<rvars, svars, xvars>>

\* The task of a caller is cancelled at one of its awaits: CancelledError is
\* no Exception, so neither except clause catches it and it leaves
\* get_image_description; nothing is counted or cached.  Raised inside
\* `async with self._image_semaphore` (the delay, the provider call) it
\* passes __aexit__, which releases the slot.  Raised while the task waits
\* for a slot, the task leaves the waiters; if a release had given it a
\* slot already, Semaphore.acquire gives the slot back and wakes the next
\* waiter.
CancelCaption(t) ==
    /\ task[t].pc \in {"acquire", "granted", "sleep", "calling"}
    /\ LET queue     == WithoutWaiter(sem_waiters, t)
           cancelled == Returned(task, t, task[t].url, "", "cancelled")
           released  == IF task[t].pc = "acquire"
                        THEN [task |-> cancelled, free |-> image_semaphore]
                        ELSE Release(cancelled, image_semaphore, queue)
       IN  /\ task' = released.task
           /\ image_semaphore' = released.free
           /\ sem_waiters' = queue
    /\ UNCHANGED <<capconfig, image_cache, cache_hits, cache_misses,
                   failed_requests, ncalls, backend_calls, sleeps, insertions,
                   entry_log, evictions>>
    /\ UNCHANGED <<rvars, svars, xvars>>

(***************************************************************************)
(* SummaryOrchestrator._build_failure_summary and _build_chat_excerpt on   *)
(* texts.  A text is a sequence of characters; "[summary failed]",         *)
(* "reason:" and "[excerpt follows]" each stand for one fixed piece of     *)
(* text without blanks, and "..." stands for the one-character ellipsis.   *)
(***************************************************************************)
\* excerpt_length: int = 800
ExcerptLength == 800

Whitespace == {" ", "\n"}

Ellipsis == "..."

Header == <<"[summary failed]">>

\* the text of n characters ch
Fill(n, ch) == [i \in 1..n |-> ch]

\* the number of blanks a text starts with
RECURSIVE LeadingBlanks(_)
LeadingBlanks(text) ==
    IF text = <<>> \/ text[1] \notin Whitespace THEN 0
    ELSE 1 + LeadingBlanks(Tail(text))

\* the number of blanks a text ends with
RECURSIVE TrailingBlanks(_)
TrailingBlanks(text) ==
    IF text = <<>> \/ text[Len(text)] \notin Whitespace THEN 0
    ELSE 1 + TrailingBlanks(SubSeq(text, 1, Len(text) - 1))

\* str.rstrip()
RStrip(text) == SubSeq(text, 1, Len(text) - TrailingBlanks(text))

\* str.strip()
Strip(text) ==
    LET r == RStrip(text) IN SubSeq(r, LeadingBlanks(r) + 1, Len(r))

\* text[:n]
Prefix(text, n) == SubSeq(text, 1, Min(n, Len(text)))

\* mutant: the cut keeps max_chars characters before the ellipsis
BuildChatExcerptOneMore(chat, max_chars) ==
    IF chat = <<>> THEN <<>>
    ELSE LET text == Strip(chat) IN
         IF Len(text) <= max_chars THEN text
         ELSE Append(RStrip(Prefix(text, max_chars)), Ellipsis)

\* _build_chat_excerpt(formatted_chat, max_chars)
BuildChatExcerpt(chat, max_chars) ==
    IF chat = <<>> THEN <<>>
    ELSE LET text == Strip(chat) IN
         IF Len(text) <= max_chars THEN text
         ELSE Append(RStrip(Prefix(text, max_chars - 1)), Ellipsis)

\* "\n\n".join(parts)
RECURSIVE JoinParts(_)
JoinParts(parts) ==
    IF parts = <<>> THEN <<>>
    ELSE IF Len(parts) = 1 THEN parts[1]
    ELSE parts[1] \o <<"\n", "\n">> \o JoinParts(Tail(parts))

\* _build_failure_summary(reason, formatted_chat, excerpt_length=...)
FailureSummaryText(why, chat, excerpt_length) ==
    LET r       == Strip(why)
        parts1  == IF r # <<>> THEN <<Header, <<"reason:">> \o r>>
                   ELSE <<Header>>
        excerpt == BuildChatExcerpt(chat, excerpt_length)
        parts2  == IF excerpt # <<>>
                   THEN parts1 \o <<<<"[excerpt follows]">>, excerpt>>
                   ELSE parts1
    IN  Strip(JoinParts(parts2))

\* the transcripts: blanks, n1 characters, a run of blanks, a tail, blanks
ChatText(lead, n1, gap, n2, trail) ==
    Fill(lead, " ") \o Fill(n1, "a") \o Fill(gap, " ") \o Fill(n2, "b")
        \o Fill(trail, "\n")

ChatLengths ==
    {0, 1} \cup {n \in (ExcerptLength - Near - 1)..(ExcerptLength + Near) : n > 0}

\* the failure reasons: str(error), which may be empty or padded
Reasons ==
    {Fill(lead, " ") \o body \o Fill(trail, "\n") :
         lead \in 0..MaxPad, trail \in 0..MaxPad,
         body \in {<<>>, <<"4", "2", "9">>, <<"t", " ", "o">>}}

FailInit ==
    /\ fpc = "call"
    /\ reason_arg \in Reasons
    /\ formatted_chat_arg \in
           {ChatText(lead, n1, gap, n2, trail) :
                lead \in 0..MaxPad, n1 \in ChatLengths, gap \in 0..MaxGap,
                n2 \in 0..MaxGap, trail \in 0..MaxPad}
    /\ failure_summary = <<>>

FailIdle ==
    /\ fpc = "idle"
    /\ reason_arg = <<>>
    /\ formatted_chat_arg = <<>>
    /\ failure_summary = <<>>

\* summary = self._build_failure_summary(str(error), current_formatted_chat)
BuildFailure ==
    /\ fpc = "call"
    /\ failure_summary' = FailureSummaryText(reason_arg, formatted_chat_arg,
                                           ExcerptLength)
    /\ fpc' = "done"
    /\ UNCHANGED <<reason_arg, formatted_chat_arg>>
    /\ UNCHANGED <<rvars, svars, cvars, mvars, avars, yvars>>

(***************************************************************************)
(* MessageFormatter.format_messages on texts.  A text is a sequence of     *)
(* characters; "image" stands for the five letters of the marker, and      *)
(* "[t5]", "<n2>:", "n2", "[image]", "[image: d]", "[face]", "[video]",    *)
(* "[reply", ": ", "]" each stand for one fixed piece of rendered text.    *)
(* A message is a record [message_id, message_seq, id, user_id, time,      *)
(* message, raw_message] (0 and <<>> for a key the message has not); a     *)
(* part is a record [type, text, content, id] with the text of a text      *)
(* part, the nested messages of a forward part, the id a reply part        *)
(* refers to and the URL of an image part; a reply part has the keys       *)
(* nickname, name, qq and user_id of its data besides.                     *)
(***************************************************************************)
TimeToken(t) == "[t" \o ToString(t) \o "]"

\* _get_sender_display_name of sender id s
DisplayName(s) == "n" \o ToString(s)

\* 「nickname」: , with the display name of sender id s
NameToken(s) == "<" \o DisplayName(s) \o ">:"

Part(type, text, content, id) ==
    [type |-> type, text |-> text, content |-> content, id |-> id]

TextPart(text) == Part("text", text, <<>>, 0)

ForwardPart(content) == Part("forward", <<>>, content, 0)

\* an image part: data.summary, what its url starts with, and which URL
\* it is
ImagePart(image_summary, scheme, url) ==
    Part("image", <<image_summary, scheme>>, <<>>, url)

\* a reply part: data.id, data.text, data.nickname, data.name, data.qq and
\* data.user_id
ReplyPart(id, text, nickname, name, qq, user_id) ==
    [type |-> "reply", text |-> text, content |-> <<>>, id |-> id,
     nickname |-> nickname, name |-> name, qq |-> qq, user_id |-> user_id]

\* a reply part with an id and a text only
Reply(id, text) == ReplyPart(id, text, <<>>, <<>>, 0, 0)

Message(message_id, user_id, parts) ==
    [message_id |-> message_id, message_seq |-> 0, id |-> 0,
     user_id |-> user_id, time |-> message_id, message |-> parts,
     raw_message |-> <<>>]

\* text.startswith(prefix)
StartsWith(text, prefix) ==
    /\ Len(prefix) <= Len(text)
    /\ SubSeq(text, 1, Len(prefix)) = prefix

\* " ".join(texts)
RECURSIVE JoinBlank(_)
JoinBlank(texts) ==
    IF texts = <<>> THEN <<>>
    ELSE IF Len(texts) = 1 THEN texts[1]
    ELSE texts[1] \o <<" ">> \o JoinBlank(Tail(texts))

\* "\n".join(lines)
RECURSIVE JoinLines(_)
JoinLines(lines) ==
    IF lines = <<>> THEN <<>>
    ELSE IF Len(lines) = 1 THEN lines[1]
    ELSE lines[1] \o <<"\n">> \o JoinLines(Tail(lines))

\* _find_replied_message: the first message whose message_id, message_seq
\* or id is the reply id, <<>> without one
FindRepliedMessage(reply_id, msgs) ==
    LET found == SelectSeq(msgs, LAMBDA m : \/ m.message_id = reply_id
                                            \/ m.message_seq = reply_id
                                            \/ m.id = reply_id)
    IN  IF reply_id = 0 \/ found = <<>> THEN <<>> ELSE <<found[1]>>

\* _handle_image_part: the marker of an animated sticker as it is; the
\* caption service's answer with an LLM service and an http(s) URL; else the
\* placeholder
ImageText(part, llm) ==
    IF part.text[1] = "[animated sticker]" THEN <<"[animated sticker]">>
    ELSE IF llm # "none" /\ part.text[2] = "http" THEN <<"[image: d]">>
    ELSE <<"[image]">>

\* mutant: no sender is taken for the bot
IsOwnNever(me, user_id) == FALSE

\* if my_id == sender.get("user_id")
IsOwn(me, user_id) == me = user_id

\* mutant: only the prefix followed by the image marker makes a wake message
WakeCheckImageOnly(pure_text, prefixes) ==
    IF \E i \in 1..Len(prefixes) :
           StartsWith(pure_text, prefixes[i] \o <<"image">>)
    THEN [is_wake_message |-> TRUE, pure_text |-> pure_text]
    ELSE [is_wake_message |-> FALSE, pure_text |-> pure_text]

\* Lines 271-280: the loop over the configured prefixes; the first prefix
\* the text starts with ends the loop.
RECURSIVE WakeCheck(_, _)
WakeCheck(pure_text, prefixes) ==
    IF prefixes = <<>>
    THEN [is_wake_message |-> FALSE, pure_text |-> pure_text]
    ELSE LET prefix == prefixes[1] IN
         IF StartsWith(pure_text, prefix \o <<"image">>)
         THEN [is_wake_message |-> TRUE,
               pure_text |-> Strip(SubSeq(pure_text, Len(prefix) + 2,
                                          Len(pure_text)))]
         ELSE IF StartsWith(pure_text, prefix)
         THEN [is_wake_message |-> TRUE, pure_text |-> pure_text]
         ELSE WakeCheck(pure_text, Tail(prefixes))

\* A call of format_messages: its messages, its indent, and how many of
\* its awaits (nested calls and captions) are over.
FormatCall(msgs, indent) == [messages |-> msgs, indent |-> indent, done |-> 0]

\* the text a finished call of format_messages returned
ResultOf(results, msgs, indent) ==
    (CHOOSE r \in results : r.messages = msgs /\ r.indent = indent).text

\* _handle_forward_part: the nested list is formatted two columns further in
\* by a call of format_messages of its own, and its text is wrapped in
\* braces.  `results` holds what the nested calls returned.
HandleForwardPart(part, indent, results) ==
    <<"\n">> \o Fill(indent, " ") \o <<"{", "\n">>
        \o ResultOf(results, part.content, indent + 2)
        \o <<"\n">> \o Fill(indent, " ") \o <<"}">>

\* What the payload of a share card (the "data" of a json part) may be:
\*   "malformed"   a string that is no JSON: json.loads raises JSONDecodeError
\*   "not_string"  no string at all: json.loads raises TypeError
\*   "not_object"  JSON that is no object (null, a list, a number)
\*   "unknown"     an object of an unknown app without a prompt
\*   "prompt"      an object of an unknown app with the prompt "p"
\*   "bad_shape"   an object of a known app whose meta is null
PayloadKinds ==
    {"malformed", "not_string", "not_object", "unknown", "prompt", "bad_shape"}

JsonPart(kind) == Part("json", <<kind>>, <<>>, 0)

\* JsonMessageParser.parse_json(json_data, indent): json_data.get on what is
\* no object raises AttributeError before the try; inside it the error of a
\* wrong shape is caught and named in the returned text.
ParseJson(kind, indent) ==
    IF kind = "not_object"
    THEN [raises |-> TRUE, text |-> <<>>]
    ELSE IF kind = "bad_shape"
    THEN [raises |-> FALSE, text |-> <<"[unparseable JSON content]">>]
    ELSE IF kind = "prompt"
    THEN [raises |-> FALSE, text |-> <<"p">>]
    ELSE [raises |-> FALSE, text |-> <<"[unknown JSON share]">>]

\* _handle_json_part: json.loads, then parse_json two columns further in;
\* only JSONDecodeError is caught and gives the placeholder
HandleJsonPart(part, indent) ==
    LET kind == part.text[1] IN
    IF kind = "malformed"
    THEN [raises |-> FALSE, text |-> <<"[unreadable share]">>]
    ELSE IF kind = "not_string"
    THEN [raises |-> TRUE, text |-> <<>>]
    ELSE LET parsed == ParseJson(kind, indent + 2)
         IN  IF parsed.raises THEN parsed
             ELSE [raises |-> FALSE,
                   text |-> <<"\n">> \o parsed.text \o <<"\n">>
                                \o Fill(indent, " ")]

\* lines 84-91 of _collect_message_text: the text of a handler that raised
\* is left out (a json part is no image part, so nothing stands for it)
HandledJsonText(part, indent) ==
    LET handled == HandleJsonPart(part, indent)
    IN  IF handled.raises THEN <<>> ELSE handled.text

\* the handlers of the parts that refer to no other message
PlainPart(part, indent, llm, results) ==
    IF part.type = "text" THEN Strip(part.text)
    ELSE IF part.type = "image" THEN ImageText(part, llm)
    ELSE IF part.type = "video" THEN <<"[video]">>
    ELSE IF part.type = "face" THEN <<"[face]">>
    ELSE IF part.type = "forward" THEN HandleForwardPart(part, indent, results)
    ELSE IF part.type = "json" THEN HandledJsonText(part, indent)
    ELSE <<>>

\* " ".join(collected_parts).strip()
JoinCollected(texts) == Strip(JoinBlank(SelectSeq(texts, LAMBDA t : t # <<>>)))

\* mutant: the reply parts of a quoted message are not left out but rendered
\* by their own fallback text
QuotedTextKeepsReplies(message_parts, indent, llm, results) ==
    JoinCollected([i \in 1..Len(message_parts) |->
                   IF message_parts[i].type = "reply"
                   THEN <<"[reply", ": ", ": ">>
                            \o Strip(message_parts[i].text) \o <<"]">>
                   ELSE PlainPart(message_parts[i], indent, llm, results)])

\* _collect_message_text(..., skip_reply=True): the parts of a quoted message
QuotedText(message_parts, indent, llm, results) ==
    LET wanted == SelectSeq(message_parts, LAMBDA p : p.type # "reply")
    IN  JoinCollected([i \in 1..Len(wanted) |->
                       PlainPart(wanted[i], indent, llm, results)])

\* lines 172-178: the sender of a quoted message that is not among the
\* messages: data.nickname or data.name when it is not blank, else data.qq
\* or data.user_id
ReplySender(part) ==
    LET nickname == IF part.nickname # <<>> THEN part.nickname ELSE part.name
        reply_sender_id == IF part.qq # 0 THEN part.qq ELSE part.user_id
    IN  IF Strip(nickname) # <<>> THEN Strip(nickname)
        ELSE IF reply_sender_id # 0 THEN <<ToString(reply_sender_id)>>
        ELSE <<>>

\* _handle_reply_part: the quoted message is looked up among the messages
\* being formatted; its sender and its text (reply parts left out, its
\* raw_message when the parts give no text) are quoted; without it the
\* sender and the text the part itself names are.
HandleReplyPart(part, msgs, indent, llm, results) ==
    LET replied == FindRepliedMessage(part.id, msgs)
        quoted  == QuotedText(replied[1].message, indent, llm, results)
        reply_sender  == IF replied # <<>>
                         THEN <<DisplayName(replied[1].user_id)>>
                         ELSE ReplySender(part)
        reply_content == IF replied # <<>>
                         THEN IF quoted # <<>> THEN quoted
                              ELSE Strip(replied[1].raw_message)
                         ELSE Strip(part.text)
    IN  IF reply_content # <<>>
        THEN <<"[reply", ": ">> \o reply_sender \o <<": ">> \o reply_content
                 \o <<"]">>
        ELSE IF reply_sender # <<>>
        THEN <<"[reply", ": ">> \o reply_sender \o <<"]">>
        ELSE <<"[reply", "]">>

\* _format_message_part: the handler of the part's type
FormatMessagePart(part, msgs, indent, llm, results) ==
    IF part.type = "reply"
    THEN HandleReplyPart(part, msgs, indent, llm, results)
    ELSE PlainPart(part, indent, llm, results)

\* _collect_message_text: the non-empty part texts joined by blanks, stripped
CollectMessageText(message_parts, msgs, indent, llm, results) ==
    JoinCollected([i \in 1..Len(message_parts) |->
                   FormatMessagePart(message_parts[i], msgs, indent, llm,
                                     results)])

\* One turn of the loop of format_messages: the lines the message adds to
\* formatted_lines, none or one.
FormatOne(msg, me, msgs, indent, llm, results) ==
    IF IsOwn(me, msg.user_id) THEN <<>>
    ELSE IF msg.message = <<>> THEN <<>>
    ELSE LET collected == CollectMessageText(msg.message, msgs, indent, llm,
                                             results)
             checked   == WakeCheck(collected, wake_prefix)
         IN  IF checked.is_wake_message THEN <<>>
             ELSE IF checked.pure_text # <<>>
             THEN <<Fill(indent, " ")
                        \o <<TimeToken(msg.time), NameToken(msg.user_id)>>
                        \o checked.pure_text>>
             ELSE <<>>

RECURSIVE FormattedLines(_, _, _, _, _, _)
FormattedLines(msgs, k, me, indent, llm, results) ==
    IF k > Len(msgs) THEN <<>>
    ELSE FormatOne(msgs[k], me, msgs, indent, llm, results)
             \o FormattedLines(msgs, k + 1, me, indent, llm, results)

\* format_messages(messages, my_id, indent, llm_service), given what its
\* nested calls returned
FormatTranscript(msgs, me, indent, llm, results) ==
    JoinLines(FormattedLines(msgs, 1, me, indent, llm, results))

\* the parts _collect_message_text hands to a handler for one message: its
\* own parts and, behind each reply part, the parts of the quoted message
RECURSIVE HandledParts(_, _)
HandledParts(message_parts, msgs) ==
    IF message_parts = <<>> THEN <<>>
    ELSE LET part    == message_parts[1]
             replied == FindRepliedMessage(part.id, msgs)
             quoted  == IF part.type = "reply" /\ replied # <<>>
                        THEN SelectSeq(replied[1].message,
                                       LAMBDA p : p.type # "reply")
                        ELSE <<>>
         IN  <<part>> \o quoted \o HandledParts(Tail(message_parts), msgs)

\* if llm_service: ... if img_url and self._is_valid_image_url(img_url):
\* the image part is handed to get_image_description
NeedsCaption(part, llm) ==
    /\ part.type = "image"
    /\ llm # "none"
    /\ part.text[1] # "[animated sticker]"
    /\ part.text[2] = "http"

NoCall == [messages |-> <<>>, indent |-> 0, done |-> 0]

\* what the handlers of the parts await, in the order of the parts: a call
\* of format_messages for a forward part, a call of get_image_description
\* for an image part
RECURSIVE PartAwaits(_, _, _)
PartAwaits(parts, indent, llm) ==
    IF parts = <<>> THEN <<>>
    ELSE LET part == parts[1]
             first == IF part.type = "forward"
                      THEN <<[kind |-> "forward", url |-> 0,
                              call |-> FormatCall(part.content, indent + 2)]>>
                      ELSE IF NeedsCaption(part, llm)
                      THEN <<[kind |-> "caption", url |-> part.id,
                              call |-> NoCall]>>
                      ELSE <<>>
         IN  first \o PartAwaits(Tail(parts), indent, llm)

\* what format_messages(msgs, me, indent, llm) awaits, in the order it
\* does: one entry for every forward part and every image part to be
\* captioned, as often as the part is handled
RECURSIVE FormatAwaits(_, _, _, _, _)
FormatAwaits(msgs, k, me, indent, llm) ==
    IF k > Len(msgs) THEN <<>>
    ELSE (IF IsOwn(me, msgs[k].user_id) THEN <<>>
          ELSE PartAwaits(HandledParts(msgs[k].message, msgs), indent, llm))
             \o FormatAwaits(msgs, k + 1, me, indent, llm)

\* The next await of a call at which the code leaves the call: the first
\* one after those that are over which is no caption already in the cache
\* (lines 138-141 of get_image_description return a cached description at
\* once); 0 when the call has none left.
NextAwait(call, me, llm, cache) ==
    LET awaits == FormatAwaits(call.messages, 1, me, call.indent, llm)
        open == {i \in (call.done + 1)..Len(awaits) :
                     ~(awaits[i].kind = "caption" /\ awaits[i].url \in cache)}
    IN  IF open = {} THEN 0
        ELSE CHOOSE i \in open : \A j \in open : i <= j

\* the await itself
AwaitAt(call, me, llm, i) ==
    FormatAwaits(call.messages, 1, me, call.indent, llm)[i]

\* the sender ids: 1 is the bot in every request
SenderIds == 1..2

\* the texts of text parts
Texts ==
    {<<"a">>, <<" ", " ">>, <<"/", "s">>, <<"/", "image", " ", "c">>,
     <<" ", "/", "x">>, <<"a", " ", "/">>, <<"image", "a">>}

\* the part lists of one message
PartLists ==
    {<<>>, <<ImagePart("", "http", 1)>>, <<ImagePart("", "http", 2)>>,
     <<Part("unknown", <<>>, <<>>, 0)>>, <<Part("video", <<>>, <<>>, 0)>>,
     <<ImagePart("[animated sticker]", "http", 1)>>,
     <<ImagePart("", "file", 1)>>,
     <<TextPart(<<"!">>), TextPart(<<"image", "x">>)>>,
     <<Part("face", <<>>, <<>>, 0), TextPart(<<"/", "s">>)>>,
     <<ForwardPart(<<>>)>>,
     <<ForwardPart(<<Message(3, 1, <<TextPart(<<"a">>)>>),
                     Message(4, 2, <<TextPart(<<"/", "s">>)>>),
                     Message(5, 3, <<TextPart(<<"b">>)>>)>>)>>}
    \cup {<<TextPart(t)>> : t \in Texts}
    \cup {<<Reply(id, t), TextPart(<<"r">>)>> :
              t \in {<<>>, <<"q">>}, id \in 1..2}
    \cup {<<TextPart(<<"a">>), JsonPart(kind), TextPart(<<"b">>)>> :
              kind \in PayloadKinds}
    \cup {<<JsonPart("malformed")>>}

\* the lists of k messages, numbered 1..k in the order of the list
RECURSIVE MessageLists(_)
MessageLists(k) ==
    IF k = 0 THEN {<<>>}
    ELSE {Append(l, Message(k, s, p)) :
              l \in MessageLists(k - 1), s \in SenderIds, p \in PartLists}

\* the batch of n messages of which the k-th is the bot's own
Batch(n, k, text) ==
    [i \in 1..n |-> Message(i, IF i = k THEN 1 ELSE 2 + (i % 2),
                            <<TextPart(text)>>)]

\* a text message under d nested forwards
RECURSIVE Nested(_)
Nested(d) ==
    IF d = 0 THEN <<Message(1, 2, <<TextPart(<<"a">>)>>)>>
    ELSE <<Message(1, 2, <<ForwardPart(Nested(d - 1))>>)>>

\* a message that replies to message 9, which is not in the list
Unfound(part) == <<Message(1, 2, <<part>>)>>

\* a message with the keys message_seq, id and raw_message
MessageWith(message_id, message_seq, id, raw_message, parts) ==
    [Message(message_id, 2, parts) EXCEPT !.message_seq = message_seq,
                                          !.id = id,
                                          !.raw_message = raw_message]

\* lists of their own: replies to a message that is not in the list, with
\* the keys of the sender and the text; replies found by message_seq and
\* by id; quoted messages whose parts give no text
ExtraLists ==
    {Unfound(ReplyPart(9, <<"q">>, <<"B">>, <<>>, 0, 0)),
     Unfound(ReplyPart(9, <<>>, <<>>, <<" ", "A", " ">>, 0, 0)),
     Unfound(ReplyPart(9, <<>>, <<" ">>, <<"A">>, 0, 8)),
     Unfound(ReplyPart(9, <<>>, <<>>, <<>>, 7, 8)),
     Unfound(ReplyPart(9, <<"q">>, <<>>, <<>>, 0, 8)),
     Unfound(ReplyPart(9, <<" ", "q">>, <<>>, <<>>, 0, 0)),
     <<MessageWith(5, 2, 0, <<>>, <<TextPart(<<"a">>)>>),
       Message(2, 2, <<Reply(2, <<>>), TextPart(<<"r">>)>>)>>,
     <<MessageWith(5, 0, 2, <<>>, <<TextPart(<<"a">>)>>),
       Message(2, 2, <<Reply(2, <<>>), TextPart(<<"r">>)>>)>>,
     <<MessageWith(5, 7, 0, <<>>, <<TextPart(<<"a">>)>>),
       Message(6, 2, <<Reply(7, <<"q">>)>>)>>,
     <<MessageWith(3, 0, 0, <<" ", "[CQ:record]", " ">>,
                   <<Part("unknown", <<>>, <<>>, 0)>>),
       Message(4, 2, <<Reply(3, <<"q">>)>>)>>,
     <<Message(3, 2, <<Part("video", <<>>, <<>>, 0)>>),
       Message(4, 2, <<Reply(3, <<>>)>>)>>,
     <<Message(3, 1, <<ImagePart("", "http", 1)>>),
       Message(4, 2, <<Reply(3, <<>>), ImagePart("", "http", 2),
                       ForwardPart(<<Message(5, 2,
                                       <<ImagePart("", "http", 1)>>)>>)>>)>>}

FmtInit ==
    /\ mpc = "call"
    /\ my_id = 1
    /\ wake_prefix \in {<<>>, <<<<"/">>>>, <<<<"!">>, <<"/">>>>}
    /\ llm_service \in {"none", "describes", "describes_at_once"}
    /\ messages_in \in
           UNION {MessageLists(k) : k \in 0..MaxMsgs}
           \cup {Batch(n, k, t) : n \in {MaxBatch}, k \in 1..MaxBatch,
                                  t \in {<<"a">>, <<"/", "s">>}}
           \cup {Nested(d) : d \in 0..MaxNest}
           \cup ExtraLists
    /\ call_stack = <<>>
    /\ caption_await = ""
    /\ described_urls = {}
    /\ returned = {}
    /\ transcript = <<>>

FmtIdle ==
    /\ mpc = "idle"
    /\ my_id = 0
    /\ wake_prefix = <<>>
    /\ llm_service = "none"
    /\ messages_in = <<>>
    /\ call_stack = <<>>
    /\ caption_await = ""
    /\ described_urls = {}
    /\ returned = {}
    /\ transcript = <<>>

\* formatted_chat = await format_messages(messages, my_id, llm_service=...)
Format ==
    /\ mpc = "call"
    /\ call_stack' = <<FormatCall(messages_in, 0)>>
    /\ mpc' = "formatting"
    /\ UNCHANGED <<my_id, wake_prefix, llm_service, messages_in,
                   caption_await, described_urls, returned, transcript>>
    /\ UNCHANGED <<rvars, svars, cvars, fvars, avars, yvars>>

\* The innermost call of format_messages reaches a forward part:
\* _handle_forward_part awaits a call of format_messages for its content,
\* one call for every forward part it handles.
EnterForward ==
    /\ mpc = "formatting"
    /\ caption_await = ""
    /\ LET call == call_stack[Len(call_stack)]
           next == NextAwait(call, my_id, llm_service, described_urls)
       IN  /\ next # 0
           /\ AwaitAt(call, my_id, llm_service, next).kind = "forward"
           /\ call_stack' =
                  Append(call_stack,
                         AwaitAt(call, my_id, llm_service, next).call)
    /\ UNCHANGED <<mpc, my_id, wake_prefix, llm_service, messages_in,
                   caption_await, described_urls, returned, transcript>>
    /\ UNCHANGED <<rvars, svars, cvars, fvars, avars, yvars>>

\* The innermost call reaches an image part whose URL is not in the cache
\* of the caption service: get_image_description goes through its gate and
\* leaves to the event loop, at asyncio.sleep(image_request_delay) when
\* there is a delay (llm_service.py:149), else at provider.text_chat (173).
AwaitCaption ==
    /\ mpc = "formatting"
    /\ caption_await = ""
    /\ LET call == call_stack[Len(call_stack)]
           next == NextAwait(call, my_id, llm_service, described_urls)
       IN  /\ next # 0
           /\ AwaitAt(call, my_id, llm_service, next).kind = "caption"
    /\ caption_await' = IF llm_service = "describes" THEN "sleep"
                        ELSE "text_chat"
    /\ UNCHANGED <<mpc, my_id, wake_prefix, llm_service, messages_in,
                   call_stack, described_urls, returned, transcript>>
    /\ UNCHANGED <<rvars, svars, cvars, fvars, avars, yvars>>

\* the delay is over: get_image_description awaits provider.text_chat
CaptionDelayOver ==
    /\ mpc = "formatting"
    /\ caption_await = "sleep"
    /\ caption_await' = "text_chat"
    /\ UNCHANGED <<mpc, my_id, wake_prefix, llm_service, messages_in,
                   call_stack, described_urls, returned, transcript>>
    /\ UNCHANGED <<rvars, svars, cvars, fvars, avars, yvars>>

\* provider.text_chat answered: the description is cached under the URL
\* and returned to _handle_image_part, and the call goes on
CaptionAnswered ==
    /\ mpc = "formatting"
    /\ caption_await = "text_chat"
    /\ LET top  == Len(call_stack)
           call == call_stack[top]
           next == NextAwait(call, my_id, llm_service, described_urls)
       IN  /\ call_stack' = [call_stack EXCEPT ![top].done = next]
           /\ described_urls' = described_urls
                  \cup {AwaitAt(call, my_id, llm_service, next).url}
    /\ caption_await' = ""
    /\ UNCHANGED <<mpc, my_id, wake_prefix, llm_service, messages_in,
                   returned, transcript>>
    /\ UNCHANGED <<rvars, svars, cvars, fvars, avars, yvars>>

\* The innermost call of format_messages has the text of every forward part
\* and of every image part, and returns its lines, to _handle_forward_part,
\* which goes on behind its forward part, or to the caller.
FormatReturns ==
    /\ mpc = "formatting"
    /\ caption_await = ""
    /\ LET top  == Len(call_stack)
           call == call_stack[top]
           text == FormatTranscript(call.messages, my_id, call.indent,
                                    llm_service, returned)
       IN  /\ NextAwait(call, my_id, llm_service, described_urls) = 0
           /\ returned' = returned \cup
                  {[messages |-> call.messages, indent |-> call.indent,
                    text |-> text]}
           /\ IF top = 1
              THEN /\ mpc' = "done"
                   /\ transcript' = text
                   /\ call_stack' = <<>>
              ELSE /\ call_stack' =
                          [SubSeq(call_stack, 1, top - 1) EXCEPT
                               ![top - 1].done =
                                   NextAwait(call_stack[top - 1], my_id,
                                             llm_service, described_urls)]
                   /\ UNCHANGED <<mpc, transcript>>
    /\ UNCHANGED <<my_id, wake_prefix, llm_service, messages_in,
                   caption_await, described_urls>>
    /\ UNCHANGED <<rvars, svars, cvars, fvars, avars, yvars>>

(***************************************************************************)
(* SummaryOrchestrator._cleanup_summary on texts.  A text is a sequence of *)
(* characters; "bq" stands for the backquote character.                    *)
(***************************************************************************)
\* the code-fence marker, three backquotes
Fence == <<"bq", "bq", "bq">>

\* the marker followed by md
FenceMd == Fence \o <<"m", "d">>

\* the marker followed by markdown
FenceMarkdown == Fence \o <<"m", "a", "r", "k", "d", "o", "w", "n">>

\* text.endswith(suffix)
EndsWith(text, suffix) ==
    /\ Len(suffix) <= Len(text)
    /\ SubSeq(text, Len(text) - Len(suffix) + 1, Len(text)) = suffix

\* _cleanup_summary(summary) for a string: strip, drop a leading marker with
\* md, then a leading marker with markdown, then a trailing marker, strip
CleanupSummary(text) ==
    LET stripped == Strip(text)
        no_md    == IF StartsWith(stripped, FenceMd)
                    THEN SubSeq(stripped, Len(FenceMd) + 1, Len(stripped))
                    ELSE stripped
        no_mark  == IF StartsWith(no_md, FenceMarkdown)
                    THEN SubSeq(no_md, Len(FenceMarkdown) + 1, Len(no_md))
                    ELSE no_md
        no_end   == IF EndsWith(no_mark, Fence)
                    THEN SubSeq(no_mark, 1, Len(no_mark) - Len(Fence))
                    ELSE no_mark
    IN  Strip(no_end)

\* how a model answer may begin
Openers ==
    {<<>>, Fence, FenceMd, FenceMarkdown, Fence \o <<"t", "e", "x", "t">>,
     <<" ">> \o FenceMd, Fence \o <<"\n">>, FenceMd \o <<"\n">>,
     FenceMarkdown \o <<"\n">>}

\* the summary inside
Bodies == {<<>>, <<"S">>, <<"S", "\n">>, <<"\n", "S", " ", "T", "\n">>}

\* how a model answer may end
Closers ==
    {<<>>, Fence, Fence \o <<"\n">>, Fence \o Fence,
     Fence \o <<"\n", "\n", "n", "o", "t", "e">>}

CleanInit ==
    /\ kpc = "call"
    /\ raw_summary \in {o \o b \o c : o \in Openers, b \in Bodies,
                                       c \in Closers}
    /\ cleaned = <<>>

CleanIdle ==
    /\ kpc = "idle"
    /\ raw_summary = <<>>
    /\ cleaned = <<>>

\* cleaned_summary = self._cleanup_summary(summary)
Cleanup ==
    /\ kpc = "call"
    /\ cleaned' = CleanupSummary(raw_summary)
    /\ kpc' = "done"
    /\ UNCHANGED raw_summary
    /\ UNCHANGED <<rvars, svars, cvars, fvars, mvars, avars, dvars>>

(***************************************************************************)
(* SchedulerService.create_and_send_scheduled_summary (scheduler_service): *)
(* the attempts at a summary, the text sent in place of one, and the two   *)
(* messages.                                                               *)
(***************************************************************************)
\* scheduled_summary_max_attempts: absent, an int, a bool or a float
ConfiguredValues ==
    {[kind |-> "absent", value |-> 0]}
    \cup {[kind |-> "int", value |-> v] : v \in -1..MaxAttemptsCfg}
    \cup {[kind |-> "bool", value |-> v] : v \in 0..1}
    \cup {[kind |-> "float", value |-> 2]}

\* isinstance(configured_attempts, int): a bool is an int
IsInt(configured) == configured.kind \in {"int", "bool"}

Max(a, b) == IF a >= b THEN a ELSE b

\* mutant: one attempt more than configured
MaxAttemptsOneMore(configured, retries) ==
    IF IsInt(configured) /\ configured.value > 0
    THEN configured.value + 1
    ELSE Max(1, retries + 1) + 1

\* lines 140-148: max_attempts
MaxAttempts(configured, retries) ==
    IF IsInt(configured) /\ configured.value > 0
    THEN configured.value
    ELSE Max(1, retries + 1)

\* What one call of create_summary_with_image(raise_on_failure=True) gives:
\* the summary and its image, the summary with no image, a
\* SummaryGenerationError, or another exception.
OrchestratorOutcomes == {"summary", "no_image", "generation_error", "exception"}

Failed(call) == call.outcome \in {"generation_error", "exception"}

\* the user_message of the SummaryGenerationError of the n-th attempt
UserMessage(n) == <<"user_message", n>>

Apology == <<"apology">>

NoError == [kind |-> "None"]

\* html_renderer.render_t2i(summary, template_name=html_template)
RenderOf(text) == <<"t2i">> \o text

SchedInit ==
    /\ dpc = "call"
    /\ configured_attempts \in ConfiguredValues
    /\ sched_max_retries \in -2..MaxSchedRetries
    /\ sched_retry_delay \in -1..1
    /\ max_attempts = 0
    /\ sched_attempt = 0
    /\ orchestrator_calls = <<>>
    /\ sched_waits = <<>>
    /\ last_error = NoError
    /\ sched_summary = <<>>
    /\ summary_image_url = <<>>
    /\ sent = <<>>

SchedIdle ==
    /\ dpc = "idle"
    /\ configured_attempts = [kind |-> "absent", value |-> 0]
    /\ sched_max_retries = 0
    /\ sched_retry_delay = 0
    /\ max_attempts = 0
    /\ sched_attempt = 0
    /\ orchestrator_calls = <<>>
    /\ sched_waits = <<>>
    /\ last_error = NoError
    /\ sched_summary = <<>>
    /\ summary_image_url = <<>>
    /\ sent = <<>>

\* lines 136-152: max_attempts, and the first turn of the loop
SchedBegin ==
    /\ dpc = "call"
    /\ max_attempts' = MaxAttempts(configured_attempts, sched_max_retries)
    /\ sched_attempt' = 1
    /\ dpc' = "loop"
    /\ UNCHANGED <<configured_attempts, sched_max_retries, sched_retry_delay,
                   orchestrator_calls, sched_waits, last_error,
                   sched_summary, summary_image_url, sent>>
    /\ UNCHANGED <<rvars, svars, cvars, fvars, mvars, avars, kvars>>

\* line 191: asyncio.sleep(wait_seconds) is over, the loop takes its next turn
SchedSleep ==
    /\ dpc = "sleep"
    /\ sched_attempt' = sched_attempt + 1
    /\ dpc' = "loop"
    /\ UNCHANGED <<configured_attempts, sched_max_retries, sched_retry_delay,
                   max_attempts, orchestrator_calls, sched_waits, last_error,
                   sched_summary, summary_image_url, sent>>
    /\ UNCHANGED <<rvars, svars, cvars, fvars, mvars, avars, kvars>>

\* the text sent in place of a summary (lines 203-206)
FallbackText(error) ==
    IF error.kind = "SummaryGenerationError"
    THEN error.user_message
    ELSE Apology

\* lines 193-212, what follows the loop up to the next await: without a
\* summary or without an image the user_message of the last error or the
\* apology takes the place of the summary and render_t2i is awaited (line
\* 213); otherwise the routine goes on to the first send (line 248)
SchedAfterLoop(text, image_url, error) ==
    IF text = <<>> \/ image_url = <<>>
    THEN /\ sched_summary' = FallbackText(error)
         /\ dpc' = "render"
    ELSE /\ sched_summary' = text
         /\ dpc' = "send_text"

\* lines 152-191: the call of the orchestrator in one turn of
\* `for attempt in range(1, max_attempts + 1)` is over: break when it
\* returned, else last_error, and before a further turn the sleep of
\* retry_delay * 2 ** (attempt - 1) is started when that is positive; when
\* the loop is left the routine runs on to its next await
SchedAttempt(outcome) ==
    /\ dpc = "loop"
    /\ sched_attempt <= max_attempts
    /\ orchestrator_calls' =
           Append(orchestrator_calls,
                  [attempt |-> sched_attempt, outcome |-> outcome])
    /\ IF outcome \in {"summary", "no_image"}
       THEN /\ summary_image_url' =
                   IF outcome = "summary" THEN <<"image">> ELSE <<>>
            /\ SchedAfterLoop(<<"summary">>, summary_image_url', last_error)
            /\ UNCHANGED <<last_error, sched_waits, sched_attempt>>
       ELSE /\ last_error' =
                   IF outcome = "generation_error"
                   THEN [kind |-> "SummaryGenerationError",
                         user_message |-> UserMessage(sched_attempt)]
                   ELSE [kind |-> "Exception"]
            /\ IF sched_attempt < max_attempts
                  /\ Max(sched_retry_delay, 0) > 0
               THEN /\ sched_waits' =
                           Append(sched_waits,
                                  Max(sched_retry_delay, 0)
                                      * (2 ^ (sched_attempt - 1)))
                    /\ dpc' = "sleep"
                    /\ UNCHANGED <<sched_attempt, sched_summary>>
               ELSE IF sched_attempt < max_attempts
               THEN /\ sched_attempt' = sched_attempt + 1
                    /\ dpc' = "loop"
                    /\ UNCHANGED <<sched_waits, sched_summary>>
               ELSE /\ SchedAfterLoop(sched_summary, summary_image_url,
                                      last_error')
                    /\ UNCHANGED <<sched_waits, sched_attempt>>
            /\ UNCHANGED summary_image_url
    /\ UNCHANGED <<configured_attempts, sched_max_retries, sched_retry_delay,
                   max_attempts, sent>>
    /\ UNCHANGED <<rvars, svars, cvars, fvars, mvars, avars, kvars>>

\* lines 213-216: html_renderer.render_t2i(summary, ...) is over; what it
\* returned is the image, and what it raised leaves the routine
SchedRendered(rendered_ok) ==
    /\ dpc = "render"
    /\ IF rendered_ok
       THEN /\ summary_image_url' = RenderOf(sched_summary)
            /\ dpc' = "send_text"
       ELSE /\ UNCHANGED summary_image_url
            /\ dpc' = "raised"
    /\ UNCHANGED <<configured_attempts, sched_max_retries, sched_retry_delay,
                   max_attempts, sched_attempt, orchestrator_calls,
                   sched_waits, last_error, sched_summary, sent>>
    /\ UNCHANGED <<rvars, svars, cvars, fvars, mvars, avars, kvars>>

\* The task of the run is cancelled (stop_all_tasks) while it is suspended
\* at one of its awaits: lines 155, 191, 213, 248 or 249.  CancelledError
\* is no Exception, so the except clauses of the loop do not catch it and
\* it leaves the routine; nothing more is sent.
SchedCancelled ==
    /\ dpc \in {"loop", "sleep", "render", "send_text", "send_image"}
    /\ dpc' = "cancelled"
    /\ UNCHANGED <<configured_attempts, sched_max_retries, sched_retry_delay,
                   max_attempts, sched_attempt, orchestrator_calls,
                   sched_waits, last_error, sched_summary, summary_image_url,
                   sent>>
    /\ UNCHANGED <<rvars, svars, cvars, fvars, mvars, avars, kvars>>

\* line 248: call_action("send_group_forward_msg", **text_payload)
SchedSendText(accepted) ==
    /\ dpc = "send_text"
    /\ IF accepted
       THEN /\ sent' = Append(sent, [type |-> "text", body |-> sched_summary])
            /\ dpc' = "send_image"
       ELSE /\ UNCHANGED sent
            /\ dpc' = "raised"
    /\ UNCHANGED <<configured_attempts, sched_max_retries, sched_retry_delay,
                   max_attempts, sched_attempt, orchestrator_calls,
                   sched_waits, last_error, sched_summary, summary_image_url>>
    /\ UNCHANGED <<rvars, svars, cvars, fvars, mvars, avars, kvars>>

\* line 249: call_action("send_group_msg", **image_payload)
SchedSendImage(accepted) ==
    /\ dpc = "send_image"
    /\ IF accepted
       THEN /\ sent' = Append(sent, [type |-> "image",
                                     body |-> summary_image_url])
            /\ dpc' = "done"
       ELSE /\ UNCHANGED sent
            /\ dpc' = "raised"
    /\ UNCHANGED <<configured_attempts, sched_max_retries, sched_retry_delay,
                   max_attempts, sched_attempt, orchestrator_calls,
                   sched_waits, last_error, sched_summary, summary_image_url>>
    /\ UNCHANGED <<rvars, svars, cvars, fvars, mvars, avars, kvars>>

(***************************************************************************)
(* parse_time_delta (utils.py) and SummaryService.get_messages_by_arg.     *)
(* An argument is a sequence of characters; "sup2" stands for the          *)
(* superscript two, a character that str.isdigit accepts and that neither  *)
(* \d nor int() does.                                                      *)
(***************************************************************************)
Digits == {"0", "1", "2", "3", "4", "5", "6", "7", "8", "9"}

DigitValue(ch) ==
    CASE ch = "0" -> 0 [] ch = "1" -> 1 [] ch = "2" -> 2 [] ch = "3" -> 3
      [] ch = "4" -> 4 [] ch = "5" -> 5 [] ch = "6" -> 6 [] ch = "7" -> 7
      [] ch = "8" -> 8 [] ch = "9" -> 9

\* int(value) of a string of decimal digits
RECURSIVE IntOf(_)
IntOf(digits) ==
    IF digits = <<>> THEN 0
    ELSE IntOf(SubSeq(digits, 1, Len(digits) - 1)) * 10
             + DigitValue(digits[Len(digits)])

\* str.lower() of one character
Lower(ch) ==
    IF ch = "H" THEN "h" ELSE IF ch = "D" THEN "d" ELSE IF ch = "M" THEN "m"
    ELSE ch

Units == {"d", "h", "m"}

\* the first position from i on that holds no digit
RECURSIVE DigitsEnd(_, _)
DigitsEnd(str, i) ==
    IF i > Len(str) \/ str[i] \notin Digits THEN i ELSE DigitsEnd(str, i + 1)

\* re.findall(r'(\d+)([dhm])', str) from position i on: the pairs
\* <<value, unit>> of the matches, left to right
RECURSIVE FindAll(_, _)
FindAll(str, i) ==
    IF i > Len(str) THEN <<>>
    ELSE LET j == DigitsEnd(str, i) IN
         IF j > i /\ j <= Len(str) /\ str[j] \in Units
         THEN <<<<SubSeq(str, i, j - 1), str[j]>>>> \o FindAll(str, j + 1)
         ELSE FindAll(str, i + 1)

\* the loop over the matches: delta_args[unit] = int(value)
RECURSIVE DeltaArgs(_, _)
DeltaArgs(parts, delta_args) ==
    IF parts = <<>> THEN delta_args
    ELSE LET value == IntOf(parts[1][1])
             unit  == parts[1][2]
         IN  DeltaArgs(Tail(parts),
                       IF unit = "d" THEN [delta_args EXCEPT !.days = value]
                       ELSE IF unit = "h"
                       THEN [delta_args EXCEPT !.hours = value]
                       ELSE [delta_args EXCEPT !.minutes = value])

\* the largest number of days of a timedelta
MaxDays == 999999999

NoDelta == [kind |-> "None", days |-> 0, seconds |-> 0, error |-> ""]

\* timedelta(days=..., hours=..., minutes=...): the normalized days and
\* seconds, or OverflowError when the days do not fit
TimeDelta(delta_args) ==
    LET rest == (delta_args.hours % 24) * 60 + (delta_args.minutes % 1440)
        days == delta_args.days + (delta_args.hours \div 24)
                    + (delta_args.minutes \div 1440) + (rest \div 1440)
    IN  IF days > MaxDays
        THEN [kind |-> "raises", days |-> 0, seconds |-> 0,
              error |-> "OverflowError"]
        ELSE [kind |-> "timedelta", days |-> days,
              seconds |-> (rest % 1440) * 60, error |-> ""]

\* parse_time_delta(time_str)
ParseTimeDelta(time_str) ==
    LET parts == FindAll([i \in 1..Len(time_str) |-> Lower(time_str[i])], 1)
    IN  IF parts = <<>> THEN NoDelta
        ELSE TimeDelta(DeltaArgs(parts, [days |-> 0, hours |-> 0,
                                         minutes |-> 0]))

\* bool(time_delta): None and the empty span are false
Truthy(delta) ==
    delta.kind = "timedelta" /\ (delta.days # 0 \/ delta.seconds # 0)

\* arg.isdigit()
IsDigit(str) ==
    str # <<>> /\ \A i \in 1..Len(str) : str[i] \in Digits \cup {"sup2"}

\* int(arg) raises ValueError on a character that is no decimal digit
IntRaises(str) == \E i \in 1..Len(str) : str[i] \notin Digits

\* if not (0 < count <= 500)
CountInRange(n) == 0 < n /\ n <= 500

\* the characters of the arguments tried at every length up to the bound
ArgChars == {"0", "1", "5", "h", "m", "D", "x", "sup2"}

ArgsUpTo(n) == UNION {[1..k -> ArgChars] : k \in 0..n}

\* arguments of their own
ExtraArgs ==
    {<<"1", "h", "2", "h">>,
     <<"3", "0", "m", "3", "0", "m">>,
     <<"a", "b", "c", "1", "h">>,
     <<"h", "e", "l", "l", "o">>,
     <<"3", "x">>,
     <<"1", "d", "2", "h", "3", "0", "m">>,
     <<"1", "0", "0", "0", "0", "0", "0", "0", "0", "0", "d">>,
     <<"9", "9", "9", "9", "9", "9", "9", "9", "9", "d">>,
     <<"8", "0", "0", "0", "0", "0", "d">>,
     <<"7", "3", "9", "0", "0", "0", "d">>,
     <<"7", "3", "9", "9", "1", "9", "d", "1", "m">>,
     <<"9", "9", "9", "9", "9", "9", "9", "9", "9", "d", "2", "4", "h">>,
     <<"1", "2", "x", "3", "h">>,
     <<"1", "h", "1", "H">>,
     <<"9", "0", "m">>}

NoAnswer == [messages |-> "", status |-> ""]

ArgInit ==
    /\ apc = "call"
    /\ arg \in ArgsUpTo(MaxArgLen) \cup ExtraArgs
    /\ time_delta = NoDelta
    /\ store_requests = <<>>
    /\ answer = NoAnswer
    /\ arg_error = ""

ArgIdle ==
    /\ apc = "idle"
    /\ arg = <<>>
    /\ time_delta = NoDelta
    /\ store_requests = <<>>
    /\ answer = NoAnswer
    /\ arg_error = ""

\* time_delta = parse_time_delta(arg)
ParseArg ==
    /\ apc = "call"
    /\ LET delta == ParseTimeDelta(arg) IN
       IF delta.kind = "raises"
       THEN /\ apc' = "raised"
            /\ arg_error' = delta.error
            /\ UNCHANGED time_delta
       ELSE /\ apc' = "parsed"
            /\ time_delta' = delta
            /\ UNCHANGED arg_error
    /\ UNCHANGED <<arg, store_requests, answer>>
    /\ UNCHANGED <<rvars, svars, cvars, fvars, mvars, yvars>>

\* The if / elif / else of get_messages_by_arg up to its await or return.
ChooseRetrieval ==
    /\ apc = "parsed"
    /\ IF Truthy(time_delta)
       THEN /\ store_requests' = Append(store_requests,
                    [kind |-> "by_time", days |-> time_delta.days,
                     seconds |-> time_delta.seconds, count |-> 0])
            /\ apc' = "awaiting"
            /\ UNCHANGED <<answer, arg_error>>
       ELSE IF IsDigit(arg)
       THEN IF IntRaises(arg)
            THEN /\ apc' = "raised"
                 /\ arg_error' = "ValueError"
                 /\ UNCHANGED <<store_requests, answer>>
            ELSE IF ~CountInRange(IntOf(arg))
            THEN /\ answer' = [messages |-> "None", status |-> "range_error"]
                 /\ apc' = "done"
                 /\ UNCHANGED <<store_requests, arg_error>>
            ELSE /\ store_requests' = Append(store_requests,
                         [kind |-> "by_count", days |-> 0, seconds |-> 0,
                          count |-> IntOf(arg)])
                 /\ apc' = "awaiting"
                 /\ UNCHANGED <<answer, arg_error>>
       ELSE /\ answer' = [messages |-> "None", status |-> "format_error"]
            /\ apc' = "done"
            /\ UNCHANGED <<store_requests, arg_error>>
    /\ UNCHANGED <<arg, time_delta>>
    /\ UNCHANGED <<rvars, svars, cvars, fvars, mvars, yvars>>

\* the whole days from datetime.min to datetime.now(), on 2026-10-31
DaysSinceMin == 739919

\* target_start_time = datetime.now() - time_delta raises OverflowError when
\* the result would lie before datetime.min; now_seconds is the time of day
BeforeMin(request, now_seconds) ==
    \/ request.days > DaysSinceMin
    \/ request.days = DaysSinceMin /\ request.seconds > now_seconds

\* get_messages_by_time or get_messages_by_count is over: the first raises
\* OverflowError for a time range that starts before datetime.min, else
\* the list comes back and is returned with the status message
RetrievalReturns ==
    /\ apc = "awaiting"
    /\ \E now_seconds \in {0, 86399} :
           IF /\ store_requests[1].kind = "by_time"
              /\ BeforeMin(store_requests[1], now_seconds)
           THEN /\ apc' = "raised"
                /\ arg_error' = "OverflowError"
                /\ UNCHANGED answer
           ELSE /\ answer' = [messages |-> "list",
                              status |-> IF store_requests[1].kind = "by_time"
                                         THEN "summarizing_duration"
                                         ELSE "summarizing_count"]
                /\ apc' = "done"
                /\ UNCHANGED arg_error
    /\ UNCHANGED <<arg, time_delta, store_requests>>
    /\ UNCHANGED <<rvars, svars, cvars, fvars, mvars, yvars>>

(***************************************************************************)
(* The specifications: each runs one component and leaves the others idle. *)
(***************************************************************************)
\* no call of _cleanup_summary
YIdle == CleanIdle /\ SchedIdle

XIdle == FailIdle /\ FmtIdle /\ ArgIdle /\ YIdle

CapNext ==
    \/ \E t \in Tasks, url \in Urls \cup {BadUrl}, kind \in ProviderKinds :
           CaptionCall(t, url, kind)
    \/ \E t \in Tasks, kind \in ProviderKinds : Acquire(t, kind)
    \/ \E t \in Tasks, kind \in ProviderKinds : AfterDelay(t, kind)
    \/ \E t \in Tasks, outcome \in BackendOutcomes : BackendReturns(t, outcome)

\* one caption service with its callers, no retrieval and no summary
CapStart == RetrIdle /\ SumIdle /\ XIdle /\ CapInit

SpecCap == CapStart /\ [][CapNext]_vars

\* the caption service with callers that may be cancelled
CapLiveNext ==
    \/ \E t \in Tasks, url \in Urls \cup {BadUrl}, kind \in ProviderKinds :
           CaptionCall(t, url, kind)
    \/ \E t \in Tasks, kind \in ProviderKinds : Acquire(t, kind)
    \/ \E t \in Tasks, kind \in ProviderKinds : AfterDelay(t, kind)
    \/ \E t \in Tasks, outcome \in BackendOutcomes : BackendReturns(t, outcome)
    \/ \E t \in Tasks : CancelCaption(t)

\* The event loop resumes a task whose await is over: a waiting task when a
\* slot is free, a sleeping task when its delay has passed, and a calling
\* task when the backend has answered, which every backend call does.
CapFairness ==
    \A t \in Tasks :
        /\ WF_vars(\E kind \in ProviderKinds : Acquire(t, kind))
        /\ WF_vars(\E kind \in ProviderKinds : AfterDelay(t, kind))
        /\ WF_vars(\E outcome \in BackendOutcomes : BackendReturns(t, outcome))

\* captioning switched on and a cache of one entry: neither the switch nor
\* the size of the cache bears on who gets a slot
CapLiveStart ==
    /\ CapStart
    /\ svc_enable_image_description
    /\ cache_size = 1

SpecCapLive == CapLiveStart /\ [][CapLiveNext]_vars /\ CapFairness

SumNext ==
    \/ StartSummary
    \/ ImageDelayOver
    \/ ImageDescribed
    \/ RetrySleep
    \/ \E outcome \in Outcomes : ModelCall(outcome)
    \/ \E ok \in BOOLEAN : RenderPrimary(ok)
    \/ \E ok \in BOOLEAN : RenderFallback(ok)

\* a summary request and no retrieval
SumStart == RetrIdle /\ CapIdle /\ XIdle /\ SumInit

SpecSum == SumStart /\ [][SumNext]_vars

FailNext ==
    \/ BuildFailure

\* one call of _build_failure_summary and nothing else
FailStart ==
    RetrIdle /\ SumIdle /\ CapIdle /\ FmtIdle /\ ArgIdle /\ YIdle /\ FailInit

SpecFail == FailStart /\ [][FailNext]_vars

FmtNext ==
    \/ Format
    \/ EnterForward
    \/ AwaitCaption
    \/ CaptionDelayOver
    \/ CaptionAnswered
    \/ FormatReturns

\* one call of format_messages and nothing else
FmtStart ==
    RetrIdle /\ SumIdle /\ CapIdle /\ FailIdle /\ ArgIdle /\ YIdle /\ FmtInit

SpecFmt == FmtStart /\ [][FmtNext]_vars

ArgNext ==
    \/ ParseArg
    \/ ChooseRetrieval
    \/ RetrievalReturns

\* one call of get_messages_by_arg and nothing else
ArgStart ==
    RetrIdle /\ SumIdle /\ CapIdle /\ FailIdle /\ FmtIdle /\ YIdle /\ ArgInit

SpecArg == ArgStart /\ [][ArgNext]_vars

CleanNext ==
    \/ Cleanup

\* one call of _cleanup_summary
CleanStart ==
    /\ RetrIdle /\ SumIdle /\ CapIdle /\ FailIdle /\ FmtIdle /\ ArgIdle
    /\ SchedIdle
    /\ CleanInit

SpecClean == CleanStart /\ [][CleanNext]_vars

SchedNext ==
    \/ SchedBegin
    \/ \E outcome \in OrchestratorOutcomes : SchedAttempt(outcome)
    \/ SchedSleep
    \/ \E rendered_ok \in BOOLEAN : SchedRendered(rendered_ok)
    \/ SchedCancelled
    \/ \E accepted \in BOOLEAN : SchedSendText(accepted)
    \/ \E accepted \in BOOLEAN : SchedSendImage(accepted)

\* one scheduled run
SchedStart ==
    /\ RetrIdle /\ SumIdle /\ CapIdle /\ FailIdle /\ FmtIdle /\ ArgIdle
    /\ CleanIdle
    /\ SchedInit

SpecSched == SchedStart /\ [][SchedNext]_vars

RetrNext ==
    \/ BatchRequestFails
    \/ BatchRequestCancelled
    \/ BatchRequestAnswers
    \/ CountRequestFails
    \/ CountRequestAnswers

\* a retrieval request and no summary
RetrStart == SumIdle /\ CapIdle /\ XIdle /\ RetrInit

SpecRetr == RetrStart /\ [][RetrNext]_vars

(***************************************************************************)
(* Claims about cancellation and the cursor of a by-duration retrieval     *)
(* (checked under SpecRetr).                                               *)
(***************************************************************************)
\* C33: when a by-duration retrieval is cancelled while a batch request is
\* in flight, nothing of its partially accumulated list is returned: the
\* caller gets no result at all, a running retrieval has returned nothing
\* yet, and a retrieval that ran to its end returns its whole list.
C33_CancelledReturnsNothing ==
    /\ rpc = "cancelled" => retrieved = <<>>
    /\ (rmode = "time" /\ rpc = "loop") => retrieved = <<>>
    /\ (rmode = "time" /\ rpc = "done") => retrieved = Reverse(all_messages)

\* a retrieval was cancelled during its third request, with the messages of
\* two batches accumulated, and returned nothing
C33_Witness ==
    /\ rpc = "cancelled"
    /\ Len(requests) = 3
    /\ Len(all_messages) > BatchSize
    /\ retrieved = <<>>

\* the message_seq of the oldest accumulated message, 0 without one
OldestAccumulated ==
    IF all_messages = <<>> THEN 0
    ELSE all_messages[Len(all_messages)].message_seq

\* C38 as claimed: during by-duration pagination the cursor of each batch
\* request is the message_seq of the oldest message accumulated so far (0,
\* "most recent", while nothing is accumulated), and the cursor of every
\* request after the first is strictly older than the cursor of the request
\* before it.
C38_CursorStrictlyOlder ==
    rmode = "time" =>
        /\ last_msg_seq = OldestAccumulated
        /\ \A i \in 1..Len(all_messages) :
               all_messages[i].message_seq >= OldestAccumulated
        /\ \A k \in 1..Len(requests) :
               IF k = 1 THEN requests[k] = 0
               ELSE /\ requests[k] # 0
                    /\ requests[k - 1] # 0 => requests[k] < requests[k - 1]

(***************************************************************************)
(* Claims about summarization (checked under SpecSum).                     *)
(***************************************************************************)
\* the model calls made by the p-th get_summary call of the request
CallsOfPass(p) == SelectSeq(calls, LAMBDA c : c.pass = p)

\* summarization is over: the request renders, has returned or has raised
Summarized == opc \in {"render", "render_fallback", "done", "raised"}

AllCalls(kinds) == \A i \in 1..Len(calls) : calls[i].outcome \in kinds

\* C6: with max_retries = 2 and captioning enabled, when every model call
\* fails by rate limit, there are at most three model calls in the
\* images-enabled pass, then exactly one more model call with captioning
\* disabled, then the deterministic failure text.  (The error that leaves
\* get_summary after the third call is a plain Exception, the orchestrator
\* builds the failure text at once and no further call is made.)
C6_OneMoreModelCall ==
    (/\ summary_max_retries = 2 /\ images_enabled
     /\ Summarized /\ calls # <<>> /\ AllCalls({"ratelimit"}))
    => /\ Len(CallsOfPass(1)) <= 3
       /\ Len(CallsOfPass(2)) = 1
       /\ summary.kind = "failure"

\* the first summarization ended in a rate-limit failure: get_summary gave
\* up after max_retries + 1 request-limit answers, or the error that left it
\* is an LLMRateLimitError
RateLimitFailure(p1) ==
    /\ p1 # <<>>
    /\ \/ p1[Len(p1)].outcome = "limit_error"
       \/ /\ Len(p1) = summary_max_retries + 1
          /\ \A j \in 1..Len(p1) : p1[j].outcome = "ratelimit"

\* C7: the captioning-disabled pass (a second format_messages call and the
\* model calls that follow it) runs only when captioning was enabled and
\* the images-enabled summarization ended in a rate-limit failure; it runs
\* at most once per request (one more format_messages call, one more
\* get_summary call); its transcript is formatted without the LLM service,
\* with no caption asked for and no caption awaited; and a rate-limit
\* failure with captioning already disabled ends the request at once in the
\* deterministic failure summary, with one format_messages call and no
\* further model call.
C7_DegradedPassOnlyAfterRateLimit ==
    LET p1 == CallsOfPass(1)
        p2 == CallsOfPass(2)
    IN  /\ Len(formats) <= 2
        /\ opc \in {"caption_sleep", "caption_chat"} =>
               (formats = <<>> /\ pass = 0)
        /\ (pass = 2 \/ p2 # <<>> \/ Len(formats) = 2) =>
               /\ images_enabled
               /\ RateLimitFailure(p1)
               /\ pass = 2
               /\ Len(formats) = 2
               /\ formats[1].llm
               /\ ~formats[2].llm
               /\ formats[2].captions = 0
               /\ Len(p2) <= summary_max_retries + 1
               /\ Cardinality({j \in 1..Len(p2) : p2[j].attempt = 0}) <= 1
               /\ \A i \in 1..Len(calls) :
                      calls[i].pass = 2 =>
                          \A j \in i..Len(calls) : calls[j].pass = 2
        /\ (~images_enabled /\ RateLimitFailure(p1)) =>
               /\ Summarized
               /\ Len(formats) = 1 /\ p2 = <<>> /\ pass = 1
               /\ summary.kind = "failure"
               /\ degrade_info # <<>>
               /\ degrade_info[1].error = p1[Len(p1)].outcome

\* with captioning enabled a transcript with a captioned image was
\* summarized, the model call ended in an LLMRateLimitError, the transcript
\* was formatted again without captions, and the second get_summary call
\* used up its attempts on request limits: the request returned the failure
\* text with both notes
C7_Witness ==
    /\ images_enabled /\ opc = "done"
    /\ summary_max_retries = 1
    /\ Len(formats) = 2
    /\ formats[1].captions > 0 /\ formats[2].captions = 0
    /\ Len(CallsOfPass(1)) = 1
    /\ CallsOfPass(1)[1].outcome = "limit_error"
    /\ Len(CallsOfPass(2)) = 2
    /\ CallsOfPass(2)[2].outcome = "ratelimit"
    /\ summary.kind = "failure"
    /\ summary.notes = NotesAfterRetry("failed")

\* C8: one get_summary call makes at most max_retries + 1 model calls, the
\* k-th retry is preceded by a wait of retry_delay * 2^(k-1) (none before the
\* first call), and no model call follows a successful one.
C8_BoundedBackoff ==
    \A p \in {1, 2} :
        LET cs == CallsOfPass(p)
        IN  /\ Len(cs) <= summary_max_retries + 1
            /\ \A j \in 1..Len(cs) :
                   /\ cs[j].attempt = j - 1
                   /\ j = 1 => cs[j].wait = 0
                   /\ j = 2 => cs[j].wait = summary_retry_delay
                   /\ j > 2 => cs[j].wait = 2 * cs[j - 1].wait
                   /\ cs[j].outcome \in {"ok", "empty"} =>
                          /\ j = Len(cs)
                          /\ calls[Len(calls)] = cs[j]
                          /\ opc \notin {"llm", "sleep"}

\* a get_summary call that succeeded on its second retry
C8_Witness ==
    /\ summary_max_retries = 2
    /\ Len(CallsOfPass(1)) = 3
    /\ CallsOfPass(1)[3].outcome = "ok"
    /\ CallsOfPass(1)[3].wait = 2 * summary_retry_delay

\* C9: a failure that is not rate-limit classified is retried under the
\* same bounded policy: when every model call of a request fails with a
\* transient error or the empty-response marker, max_retries + 1 calls are
\* made, no degraded pass runs and the result is the failure text.  (A
\* transient error ends get_summary at the call it occurs in, and the
\* empty-response marker is returned as the summary.)
C9_NonRateLimitRetried ==
    (Summarized /\ calls # <<>> /\ AllCalls({"transient", "empty"}))
    => /\ Len(calls) = summary_max_retries + 1
       /\ Len(formats) = 1
       /\ summary.kind = "failure"

\* C10 as claimed: without raise_on_failure the request never raises.
C10_NeverRaises ==
    ~raise_on_failure => opc # "raised"

\* C10 as amended: without raise_on_failure no outcome of the model calls
\* makes the request raise: it goes on to render a best-effort summary text,
\* and what it returns is that text with an image; the only error that
\* reaches the caller is the fallback renderer's, after the primary renderer
\* failed too.
C10_BestEffortUnlessRenderFails ==
    ~raise_on_failure =>
        /\ raised # "SummaryGenerationError"
        /\ Summarized => summary.kind # "none"
        /\ opc = "raised" =>
               /\ raised = "RenderError"
               /\ Len(renders) = 2
               /\ ~renders[1].ok /\ ~renders[2].ok
        /\ opc = "done" =>
               /\ renders # <<>>
               /\ renders[Len(renders)].ok
               /\ renders[Len(renders)].text = summary

\* a failed summarization was returned as failure text with an image
C10_Witness ==
    /\ ~raise_on_failure /\ opc = "done"
    /\ summary.kind = "failure" /\ degrade_info # <<>>
    /\ calls # <<>>

\* C11: with raise_on_failure set, every request whose summarization ended
\* in the deterministic failure text raises SummaryGenerationError carrying
\* that text (with its notes) as user_message and the rate-limit flag of the
\* failure, and renders no image; a request that succeeded (also after a
\* successful degraded pass) or that short-circuited on empty input does not
\* raise it.  (The flag the error carries is False also when the failure was
\* a rate limit.)
C11_StrictFailureSignaling ==
    (raise_on_failure /\ Summarized) =>
        /\ summary.kind = "failure" =>
               /\ opc = "raised"
               /\ raised = "SummaryGenerationError"
               /\ Len(raised_error) = 1
               /\ raised_error[1].user_message = summary
               /\ raised_error[1].message = calls[Len(calls)].outcome
               /\ raised_error[1].rate_limited =
                      (calls[Len(calls)].outcome \in
                           {"ratelimit", "limit_error"})
               /\ renders = <<>>
        /\ summary.kind # "failure" =>
               /\ raised # "SummaryGenerationError"
               /\ raised_error = <<>>
               /\ summary.kind \in {"model", "model_empty", "no_messages",
                                    "nothing_after_filtering"}

\* C12: for an empty (or missing) message list the orchestrator goes straight
\* to rendering the fixed "no messages in range" summary and returns it with
\* the rendered image reference, without formatting a transcript and without
\* any model or captioning call, whatever raise_on_failure is.
C12_EmptyListShortCircuit ==
    (opc # "start" /\ EnsureList(messages_arg) = <<>>) =>
        /\ summary = FixedSummary("no_messages")
        /\ formats = <<>>
        /\ calls = <<>>
        /\ degrade_info = <<>>
        /\ raised # "SummaryGenerationError"
        /\ \A i \in 1..Len(renders) : renders[i].text = summary
        /\ opc \in {"render", "render_fallback", "done", "raised"}
        /\ opc = "done" => (renders # <<>> /\ renders[Len(renders)].ok)

\* a missing (None) message list under strict signaling was rendered
C12_Witness ==
    /\ messages_arg = <<>> /\ raise_on_failure
    /\ opc = "done"
    /\ summary.kind = "no_messages"
    /\ Len(renders) = 1

\* C13: when the formatted transcript of a non-empty list is empty (every
\* message was filtered out), the orchestrator returns the fixed "nothing to
\* summarize after filtering" text and renders it, makes no model call and
\* no second formatting, and reports no failure (no typed error under strict
\* signaling).
C13_EmptyTranscriptShortCircuit ==
    (/\ opc # "start" /\ message_list # <<>>
     /\ FormatMessages(message_list, images_enabled).chat = <<>>) =>
        /\ summary = FixedSummary("nothing_after_filtering")
        /\ Len(formats) = 1
        /\ calls = <<>> /\ pass = 0
        /\ degrade_info = <<>>
        /\ raised # "SummaryGenerationError" /\ raised_error = <<>>
        /\ \A i \in 1..Len(renders) : renders[i].text = summary
        /\ opc \in {"render", "render_fallback", "done", "raised"}
        /\ opc = "done" => (renders # <<>> /\ renders[Len(renders)].ok)

\* two filtered-out messages (the bot's own, a wake command) under strict
\* signaling: the fixed text was rendered
C13_Witness ==
    /\ raise_on_failure /\ opc = "done"
    /\ Len(message_list) = 2
    /\ \E i \in 1..2 : message_list[i] = "own"
    /\ \E i \in 1..2 : message_list[i] = "wake"
    /\ summary.kind = "nothing_after_filtering"

\* C14: the secondary renderer is invoked exactly when the primary renderer
\* failed, with the same text and the same template name; when the primary
\* succeeds the secondary is never called, and when both fail the request
\* fails with an error.
C14_FallbackRenderer ==
    /\ Len(renders) <= 2
    /\ renders # <<>> =>
           /\ renders[1].renderer = "local"
           /\ renders[1].template = html_renderer_template
           /\ renders[1].ok => (Len(renders) = 1 /\ opc = "done")
           /\ ~renders[1].ok =>
                  (Len(renders) = 2 \/ opc = "render_fallback")
    /\ opc = "render_fallback" => (Len(renders) = 1 /\ ~renders[1].ok)
    /\ Len(renders) = 2 =>
           /\ ~renders[1].ok
           /\ renders[2].renderer = "remote"
           /\ renders[2].text = renders[1].text
           /\ renders[2].template = renders[1].template
           /\ renders[2].ok => (opc = "done" /\ raised = "")
           /\ ~renders[2].ok => (opc = "raised" /\ raised = "RenderError")

\* the remote renderer produced the image of a group with its own template
\* after the local one failed
C14_Witness ==
    /\ Len(renders) = 2 /\ renders[2].ok
    /\ html_renderer_template = "custom"
    /\ opc = "done"

\* C29: the steps of a request come in one order: the transcript is
\* formatted, then the model is called, then the summary is rendered.  No
\* model call is made before a transcript was formatted, nothing is formatted
\* and no model is called once rendering has started, every rendering is given
\* the summary as it then stands, and a request that returns has rendered
\* exactly the text it returns.
C29_FormatCallRender ==
    [][/\ calls' # calls =>
              (formats # <<>> /\ renders = <<>> /\ renders' = <<>>)
       /\ formats' # formats => (renders = <<>> /\ renders' = <<>>)
       /\ renders # <<>> =>
              (formats' = formats /\ calls' = calls /\ summary' = summary)
       /\ renders' # renders =>
              /\ formats' = formats /\ calls' = calls /\ summary' = summary
              /\ renders'[Len(renders')].text = summary
       /\ opc' = "done" =>
              /\ renders' # <<>>
              /\ renders'[Len(renders')].ok
              /\ renders'[Len(renders')].text = summary'
      ]_vars

\* a request formatted its transcript with captions, called the model twice
\* with a sleep in between, and returned the model's summary from the second
\* renderer
C29_Witness ==
    /\ opc = "done"
    /\ Len(formats) = 1 /\ formats[1].captions > 0
    /\ Len(calls) = 2 /\ calls[1].outcome = "ratelimit"
    /\ Len(renders) = 2
    /\ summary.kind = "model"
    /\ renders[2].text = summary

\* C30: when the captioning-disabled pass, run after a rate-limit failure
\* of the first pass, ends with a completion, the request's summary is the
\* model's text followed by the one note that discloses the degradation,
\* and the request counts as a success: no failure text is produced, no
\* failure is recorded, no typed error is raised even under strict failure
\* signaling, and the request goes on to render that summary.
C30_DegradedSuccess ==
    LET p1 == CallsOfPass(1)
        p2 == CallsOfPass(2)
    IN  (p2 # <<>> /\ p2[Len(p2)].outcome \in {"ok", "empty"}) =>
            /\ RateLimitFailure(p1)
            /\ Summarized
            /\ summary = [ModelSummary(p2[Len(p2)].outcome)
                   EXCEPT !.notes = <<"image description switched off">>]
            /\ summary.kind # "failure"
            /\ degrade_info = <<>>
            /\ opc = "raised" => raised = "RenderError"
            /\ raised # "SummaryGenerationError"
            /\ raised_error = <<>>
            /\ \A i \in 1..Len(renders) : renders[i].text = summary

\* under strict failure signaling the first summarization ended in an
\* LLMRateLimitError, the captioning-disabled pass got a completion on its
\* first retry, and the request returned the model's text with the note
C30_Witness ==
    /\ raise_on_failure /\ images_enabled /\ opc = "done"
    /\ Len(CallsOfPass(1)) = 1
    /\ CallsOfPass(1)[1].outcome = "limit_error"
    /\ Len(CallsOfPass(2)) = 2
    /\ CallsOfPass(2)[2].outcome = "ok"
    /\ summary.kind = "model"
    /\ summary.notes = <<"image description switched off">>
    /\ raised = "" /\ raised_error = <<>>
    /\ renders # <<>> /\ renders[Len(renders)].text = summary

(***************************************************************************)
(* Claims about retrieval (checked under SpecRetr).                        *)
(***************************************************************************)
\* the whole history of n messages, oldest first
Store(n) == [i \in 1..n |-> MsgAt(i)]

\* the messages of the history that are not older than the cutoff, oldest first
InWindow(n, target) == SelectSeq(Store(n), LAMBDA m : m.time >= target)

SeqIds(msgs) == {msgs[i].message_seq : i \in 1..Len(msgs)}

Ascending(msgs) ==
    \A i \in 1..(Len(msgs) - 1) : msgs[i].message_seq < msgs[i + 1].message_seq

\* C1: on a history longer than one batch, with a cutoff that excludes some
\* of the oldest messages, a by-duration retrieval whose requests all answer
\* returns exactly the messages not older than the cutoff, each once, in
\* ascending chronological order.
C1_ByTimeExactWindow ==
    (/\ rmode = "time" /\ rpc = "done" /\ ~failed
     /\ storeSize > BatchSize
     /\ target_start_time > 0)
    => /\ retrieved = InWindow(storeSize, target_start_time)
       /\ Ascending(retrieved)
       /\ Cardinality(SeqIds(retrieved)) = Len(retrieved)

\* 250 messages, batch size 100, the oldest 40 excluded: 210 returned in 3 requests
C1_Witness ==
    /\ rmode = "time" /\ rpc = "done" /\ ~failed
    /\ storeSize = 250
    /\ Len(InWindow(storeSize, target_start_time)) = 210
    /\ Len(retrieved) = 210
    /\ Len(requests) = 3

\* C2: once a batch came back shorter than the batch size, the pagination
\* loop has stopped: no further batch request is issued after it.
C2_ShortBatchStops ==
    (rmode = "time" /\ ~failed) =>
        \A k \in 1..Len(batchLens) :
            (batchLens[k] >= 0 /\ batchLens[k] < BatchSize) => Len(requests) = k

\* C3: at every point of by-duration pagination, and in its result, the
\* accumulated list holds no message older than the cutoff and no
\* message_seq twice.
C3_NoOldNoDuplicate ==
    rmode = "time" =>
        /\ \A i \in 1..Len(all_messages) :
               all_messages[i].time >= target_start_time
        /\ Cardinality(SeqIds(all_messages)) = Len(all_messages)
        /\ \A i \in 1..Len(retrieved) : retrieved[i].time >= target_start_time
        /\ Cardinality(SeqIds(retrieved)) = Len(retrieved)

\* a second batch, whose newest message is the cursor, has been scanned
C3_Witness ==
    /\ rmode = "time"
    /\ Len(requests) >= 2
    /\ batchLens[2] = BatchSize
    /\ requests[2] # 0
    /\ Len(all_messages) > BatchSize

\* C4: a failed request never propagates: the by-duration retrieval has
\* returned the messages accumulated from the batches before the failure
\* (all of what those batches covered, oldest first), the by-count retrieval
\* has returned the empty list.
C4_FailureReturnsPartial ==
    failed =>
        /\ rpc = "done"
        /\ IF rmode = "time"
           THEN LET k == Len(requests) - 1
                    covered == IF k = 0 THEN 0
                               ELSE Min(storeSize, k * (BatchSize - 1) + 1)
                IN  /\ retrieved = Reverse(all_messages)
                    /\ Len(retrieved) = covered
                    /\ \A i \in 1..covered :
                           retrieved[i] = MsgAt(storeSize - covered + i)
           ELSE retrieved = <<>>

\* the third request of a by-duration retrieval failed after two full batches
C4_Witness ==
    /\ failed /\ rmode = "time" /\ rpc = "done"
    /\ Len(requests) = 3
    /\ Len(retrieved) = 2 * BatchSize - 1

\* C5: get_messages_by_count on a history of at least `count` messages
\* returns exactly `count` messages in ascending chronological order.
C5_ByCountChronological ==
    (rmode = "count" /\ rpc = "done" /\ ~failed /\ storeSize >= count)
    => /\ Len(retrieved) = count
       /\ Ascending(retrieved)

(***************************************************************************)
(* Claims about image captioning (checked under SpecCap).                  *)
(***************************************************************************)
\* the provider calls in flight
InFlight == {t \in Tasks : task[t].pc = "calling"}

\* the tasks that hold a slot of the semaphore: those inside
\* `async with self._image_semaphore` and the waiters a release gave a slot
Holders == {t \in Tasks : task[t].pc \in {"granted", "sleep", "calling"}}

\* the ways a call ends without a description of its own
FailureKinds == {"disabled", "unexpected", "unsupported", "provider_error",
                 "raised", "empty"}

\* C15: get_image_description never raises and always returns a non-empty
\* display string, whatever the provider does (raises, returns an empty
\* answer or the marker, lacks image capability, cannot be obtained) and
\* whatever the cache holds: on any failure the result is the literal
\* placeholder, and a cache hit returns a stored, non-empty string.
C15_NeverRaisesNonEmpty ==
    /\ \A t \in Tasks :
           /\ task[t].pc # "raised"
           /\ (task[t].pc = "idle" /\ task[t].how # "none") =>
                  /\ task[t].result # ""
                  /\ task[t].result \in {Placeholder, "[image: a cat]"}
                  /\ task[t].how \in FailureKinds => task[t].result = Placeholder
                  /\ task[t].how = "described" => task[t].result # Placeholder
    /\ \A i \in 1..Len(image_cache) :
           image_cache[i].description \in {Placeholder, "[image: a cat]"}

\* a provider error was answered with the placeholder, and a later call for
\* that URL got the cached placeholder
C15_Witness ==
    \E t1, t2 \in Tasks :
        /\ task[t1].pc = "idle" /\ task[t1].how = "raised"
        /\ task[t2].pc = "idle" /\ task[t2].how = "hit"
        /\ task[t2].url = task[t1].url
        /\ task[t2].result = Placeholder

\* C16: over any sequence and any interleaving of get_image_description
\* calls on one service instance, the captioning backend is called at most
\* once per distinct URL (stated here for the behaviours in which the cache
\* has room and has evicted nothing, where no entry was ever lost).
C16_BackendOncePerUrl ==
    (cache_size >= 1 /\ evictions = <<>>) =>
        \A u \in Urls : backend_calls[u] <= 1

\* C17: in every reachable state the caption cache holds at most
\* image_description_cache_size entries (one per URL), also after
\* capacity + 1 insertions of distinct URLs and under concurrent calls.
C17_CacheBounded ==
    /\ Len(image_cache) <= cache_size
    /\ Cardinality(CacheKeys(image_cache)) = Len(image_cache)

\* capacity + 1 distinct URLs were inserted into a cache that holds entries,
\* while another call was under way
C17_Witness ==
    /\ cache_size >= 1
    /\ insertions = cache_size + 1
    /\ Len(image_cache) = cache_size
    /\ \E t \in Tasks : task[t].pc # "idle"

\* the time stamps of the entries of a cache
Stamps(cache) == {entry_log[u].stamp : u \in CacheKeys(cache)}

\* C18: when an insertion makes the caption cache exceed its capacity,
\* exactly one entry is removed and it is the entry that was inserted
\* earliest; nothing is removed otherwise; a cache hit changes neither the
\* cache nor the order of its entries, which stay in the order of insertion.
C18_FifoEviction ==
    [][LET keys  == CacheKeys(image_cache)
           keys2 == CacheKeys(image_cache')
       IN  /\ Len(evictions') \in {Len(evictions), Len(evictions) + 1}
           /\ Len(evictions') = Len(evictions) + 1 =>
                  LET e == evictions'[Len(evictions')]
                  IN  /\ insertions' = insertions + 1
                      /\ Len(image_cache) = cache_size
                      /\ Len(image_cache') = cache_size
                      /\ e.url \notin keys2
                      /\ keys \ keys2 \subseteq {e.url}
                      /\ Cardinality(keys2 \ keys) <= 1
                      /\ e.stamp > 0
                      /\ \A st \in Stamps(image_cache) \cup {insertions'} :
                             e.stamp <= st
           /\ Len(evictions') = Len(evictions) => keys \subseteq keys2
           /\ cache_hits' # cache_hits =>
                  /\ image_cache' = image_cache
                  /\ \A u \in Urls : entry_log'[u].stamp = entry_log[u].stamp
           /\ \A i, j \in 1..Len(image_cache') :
                  i < j => entry_log'[image_cache'[i].url].stamp
                               < entry_log'[image_cache'[j].url].stamp
      ]_vars

\* an entry that had been hit was evicted by the next new URL, which is now
\* the cache's only entry
C18_Witness ==
    /\ evictions # <<>>
    /\ evictions[Len(evictions)].hits > 0
    /\ Len(image_cache) = 1
    /\ entry_log[image_cache[1].url].stamp > evictions[Len(evictions)].stamp

\* C19: at every moment the number of captioning backend calls in flight on
\* one service instance is at most max_concurrent_image_requests (the tasks
\* between acquiring and releasing the semaphore are never more than that),
\* however many callers drive captioning concurrently.
C19_BoundedInFlight ==
    /\ Cardinality(InFlight) <= max_concurrent_image_requests
    /\ Cardinality(Holders) <= max_concurrent_image_requests
    /\ image_semaphore >= 0
    /\ image_semaphore + Cardinality(Holders) = max_concurrent_image_requests

\* every slot is taken by a call in flight and one more caller waits for one
C19_Witness ==
    /\ Cardinality(InFlight) = max_concurrent_image_requests
    /\ \E t \in Tasks : task[t].pc = "acquire"

\* C20: with captioning disabled by configuration, get_image_description
\* returns the placeholder and leaves everything else as it was: no provider
\* call, no slot of the semaphore taken, no delay, no cache entry added or
\* evicted, no counter changed.
C20_DisabledIsInert ==
    ~svc_enable_image_description =>
        /\ \A t \in Tasks :
               /\ task[t].pc = "idle"
               /\ task[t].how \in {"none", "disabled"}
               /\ task[t].how = "disabled" => task[t].result = Placeholder
        /\ \A u \in Urls : backend_calls[u] = 0
        /\ image_semaphore = max_concurrent_image_requests
        /\ sleeps = 0
        /\ image_cache = <<>>
        /\ insertions = 0 /\ evictions = <<>>
        /\ cache_hits = 0 /\ cache_misses = 0 /\ failed_requests = 0

\* with a delay configured, two callers asked for the same URL while
\* captioning was disabled
C20_Witness ==
    /\ ~svc_enable_image_description
    /\ image_request_delay > 0
    /\ ncalls >= 2
    /\ \A t \in Tasks : task[t].how = "disabled" /\ task[t].url = 1

\* the cached description of url, or "" when the cache has no entry for it
CachedDescription(cache, url) ==
    IF CacheHit(cache, url)
    THEN cache[CacheIndex(cache, url)].description
    ELSE ""

\* C21 as stated: once the backend call for a URL raised, a later request
\* for that URL is answered with the placeholder from the cache, without a
\* backend call.
C21_LaterRequestFromCache ==
    [][\A t1, t \in Tasks :
          (/\ t # t1
           /\ task[t1].pc = "idle" /\ task[t1].how = "raised"
           /\ ncalls' = ncalls + 1
           /\ task[t].pc = "idle" /\ task'[t] # task[t]
           /\ task'[t].url = task[t1].url) =>
              /\ task'[t].pc = "idle" /\ task'[t].how = "hit"
              /\ task'[t].result = Placeholder
              /\ backend_calls' = backend_calls
      ]_vars

\* C21: when the backend call of a request raises (a rate limit included),
\* the request ends there: no further backend call is made, the failure is
\* counted, the placeholder is returned and handed to the cache under the
\* URL, where it stays if the capacity is at least 1 and is evicted at once
\* if the capacity is 0.  A request that starts later is answered from the
\* cache exactly if the cache still has an entry for its URL: then it
\* returns the stored string without a backend call and leaves the cache as
\* it is, and the string is the placeholder if the backend was called once
\* for the URL and that call raised; if the entry was evicted (or never
\* kept) the request is a miss and goes on to the gate and the backend.
C21_FailureIsCached ==
    [][/\ \A t \in Tasks :
              (task[t].pc = "calling" /\ task'[t].pc = "idle"
                   /\ task'[t].how = "raised") =>
                  /\ task'[t].result = Placeholder
                  /\ backend_calls' = backend_calls
                  /\ failed_requests' = failed_requests + 1
                  /\ cache_size >= 1 =>
                         CachedDescription(image_cache', task[t].url) = Placeholder
                  /\ cache_size = 0 => image_cache' = <<>>
       /\ (ncalls' = ncalls + 1 /\ svc_enable_image_description) =>
              \E t \in Tasks :
                  /\ task[t].pc = "idle"
                  /\ \A t2 \in Tasks \ {t} : task'[t2] = task[t2]
                  /\ LET url == task'[t].url IN
                     IF url = BadUrl
                     THEN cache_hits' = cache_hits /\ cache_misses' = cache_misses
                     ELSE IF CacheHit(image_cache, url)
                     THEN /\ cache_hits' = cache_hits + 1
                          /\ cache_misses' = cache_misses
                          /\ task'[t].pc = "idle" /\ task'[t].how = "hit"
                          /\ task'[t].result = CachedDescription(image_cache, url)
                          /\ backend_calls' = backend_calls
                          /\ image_cache' = image_cache
                          /\ (\E t1 \in Tasks :
                                  /\ task[t1].pc = "idle"
                                  /\ task[t1].how = "raised"
                                  /\ task[t1].url = url
                                  /\ backend_calls[url] = 1) =>
                                 task'[t].result = Placeholder
                     ELSE /\ cache_misses' = cache_misses + 1
                          /\ cache_hits' = cache_hits
                          /\ task'[t].how # "hit"
                          /\ task'[t].pc \in {"acquire", "sleep", "calling", "idle"}
                          /\ task'[t].pc = "calling" =>
                                 backend_calls' =
                                     [backend_calls EXCEPT ![url] = @ + 1]
      ]_vars

\* the only backend call for a URL raised, the failure was counted once, and
\* the next request for that URL was answered from the cache with the
\* placeholder while the backend had still been called once
C21_Witness ==
    \E t1, t2 \in Tasks :
        /\ t1 # t2
        /\ task[t1].pc = "idle" /\ task[t1].how = "raised"
        /\ task[t2].pc = "idle" /\ task[t2].how = "hit"
        /\ task[t2].url = task[t1].url
        /\ task[t2].result = Placeholder
        /\ backend_calls[task[t1].url] = 1
        /\ failed_requests = 1 /\ cache_hits = 1 /\ ncalls = 2
        /\ CachedDescription(image_cache, task[t1].url) = Placeholder

\* task t holds a slot: it is inside `async with self._image_semaphore` or
\* a release gave it the slot it waited for
HoldsSlot(t) == t \in Holders

\* the step leaves task t2 alone, or only gives it the slot it waited for
LeftOrWoken(t2) ==
    \/ task'[t2] = task[t2]
    \/ /\ task[t2].pc = "acquire"
       /\ task'[t2] = [task[t2] EXCEPT !.pc = "granted"]

\* the step writes the cache: a key is put or deleted, or a value replaced
CacheWritten ==
    \/ image_cache' # image_cache
    \/ insertions' # insertions
    \/ evictions' # evictions

\* the step put a new key url into the cache (and may have deleted it again)
PutNewKey(url) ==
    /\ insertions' = insertions + 1
    /\ \/ entry_log'[url].stamp = insertions'
       \/ /\ Len(evictions') = Len(evictions) + 1
          /\ evictions'[Len(evictions')].url = url
          /\ evictions'[Len(evictions')].stamp = insertions'

\* the step is the return of task t from inside the gate: from one of its
\* awaits, or straight from the call that missed the cache and stored a key
ReturnsFromGate(t) ==
    /\ task'[t].pc = "idle"
    /\ task'[t].how \in {"described", "empty", "raised", "unsupported",
                         "provider_error"}
    /\ \A t2 \in Tasks \ {t} : LeftOrWoken(t2)
    /\ \/ task[t].pc \in {"granted", "sleep", "calling"}
       \/ /\ task[t].pc = "idle"
          /\ task'[t].how \in {"unsupported", "provider_error"}
          /\ ncalls' = ncalls + 1
          /\ PutNewKey(task'[t].url)

\* C34: every write to the caption cache, insertion and eviction, is made by
\* a caption call that holds a slot of the admission gate at that moment:
\* the writer held a slot before the step, or took one in the step while
\* the gate was not locked, and the slots in use never exceed the limit.
C34_WritesInsideGate ==
    [][CacheWritten =>
           \E t \in Tasks :
               /\ ReturnsFromGate(t)
               /\ \/ HoldsSlot(t)
                  \/ /\ task[t].pc = "idle"
                     /\ image_semaphore > 0 /\ sem_waiters = <<>>
               /\ image_semaphore' >= 0
               /\ image_semaphore' + Cardinality({t2 \in Tasks :
                          task'[t2].pc \in {"granted", "sleep", "calling"}})
                      = max_concurrent_image_requests
      ]_vars

\* two entries were put and one deleted by calls that held the only slot,
\* the second while another call waited at the gate, which was given the
\* slot by the release
C34_Witness ==
    /\ max_concurrent_image_requests = 1
    /\ insertions = 2
    /\ Len(evictions) = 1
    /\ image_semaphore = 0
    /\ \E t1, t2 \in Tasks :
           /\ task[t1].pc = "granted"
           /\ task[t2].pc = "idle" /\ task[t2].how = "described"

\* C35: every caption call that went through the admission gate returns
\* exactly the string it stored in the cache for its URL: the decorated
\* description for a non-empty model answer, the bare placeholder for an
\* empty or marker answer, and the bare placeholder without a backend call
\* when the model does not advertise image capability.
C35_ReturnsWhatItStored ==
    [][\A t \in Tasks :
          ReturnsFromGate(t) =>
              /\ cache_size >= 1 =>
                     CachedDescription(image_cache', task'[t].url)
                         = task'[t].result
              /\ task'[t].how = "described" =>
                     /\ task[t].pc = "calling"
                     /\ task'[t].result = "[image: a cat]"
              /\ task'[t].how = "empty" =>
                     /\ task[t].pc = "calling"
                     /\ task'[t].result = "[image]"
              /\ task'[t].how = "unsupported" =>
                     /\ task[t].pc # "calling"
                     /\ backend_calls' = backend_calls
                     /\ task'[t].result = "[image]"
      ]_vars

\* one call returned the decorated description it stored, another, for a
\* model without image capability, the placeholder it stored without a
\* backend call for its URL
C35_Witness ==
    \E t1, t2 \in Tasks :
        /\ t1 # t2
        /\ task[t1].pc = "idle" /\ task[t1].how = "described"
        /\ task[t2].pc = "idle" /\ task[t2].how = "unsupported"
        /\ task[t1].url # task[t2].url
        /\ task[t1].result = "[image: a cat]"
        /\ CachedDescription(image_cache, task[t1].url) = task[t1].result
        /\ CachedDescription(image_cache, task[t2].url) = "[image]"
        /\ backend_calls[task[t2].url] = 0

\* C39: every caption call that took a slot of the admission gate gives it
\* back on every exit (success, backend error, non-vision skip,
\* cancellation): the free slots and the calls that hold one always add
\* up to the limit; and, backend calls completing, every call that waits at
\* the gate is eventually admitted and leaves get_image_description.
C39_SlotsReleased ==
    /\ [](image_semaphore + Cardinality({t \in Tasks : HoldsSlot(t)})
              = max_concurrent_image_requests)
    /\ \A t \in Tasks : (task[t].pc = "acquire") ~> (task[t].pc = "idle")

\* with one slot, one call was cancelled and another one, which missed the
\* cache too, got the slot, was answered and gave the slot back
C39_Witness ==
    /\ max_concurrent_image_requests = 1
    /\ image_semaphore = 1
    /\ cache_misses = 2
    /\ \E t1, t2 \in Tasks :
           /\ task[t1].pc = "idle" /\ task[t1].how = "cancelled"
           /\ task[t2].pc = "idle" /\ task[t2].how = "described"
           /\ backend_calls[task[t2].url] = 1

(***************************************************************************)
(* Claims about the failure summary (checked under SpecFail).              *)
(***************************************************************************)
\* where the excerpt's heading stands in a failure summary, 0 without one
HeadingAt(text) ==
    IF \E k \in 1..Len(text) : text[k] = "[excerpt follows]"
    THEN CHOOSE k \in 1..Len(text) : text[k] = "[excerpt follows]"
    ELSE 0

\* the chat excerpt of a failure summary: what follows the heading
ExcerptOf(text) ==
    IF HeadingAt(text) = 0 THEN <<>>
    ELSE SubSeq(text, HeadingAt(text) + 3, Len(text))

\* C28: a failure summary starts with the fixed apology header, followed by
\* the failure reason (when the reason is not blank); its chat excerpt is
\* never longer than the excerpt bound of 800 characters: it is the whole
\* transcript (without the blanks around it) when that fits, otherwise a cut
\* of the transcript that ends with an ellipsis.
C28_BoundedExcerpt ==
    fpc = "done" =>
        LET why     == Strip(reason_arg)
            chat    == Strip(formatted_chat_arg)
            excerpt == ExcerptOf(failure_summary)
        IN  /\ Prefix(failure_summary, 1) = Header
            /\ why # <<>> =>
                   Prefix(failure_summary, 4 + Len(why))
                       = Header \o <<"\n", "\n", "reason:">> \o why
            /\ Len(excerpt) <= ExcerptLength
            /\ Len(chat) <= ExcerptLength => excerpt = chat
            /\ Len(chat) > ExcerptLength =>
                   /\ excerpt[Len(excerpt)] = Ellipsis
                   /\ Len(excerpt) >= 2
                   /\ Prefix(chat, Len(excerpt) - 1)
                          = SubSeq(excerpt, 1, Len(excerpt) - 1)
                   /\ excerpt[Len(excerpt) - 1] \notin Whitespace

\* a transcript longer than the bound, with a blank where the cut falls, was
\* cut to an excerpt shorter than the bound, after a padded reason
C28_Witness ==
    /\ fpc = "done"
    /\ Len(Strip(formatted_chat_arg)) > ExcerptLength
    /\ Strip(formatted_chat_arg)[ExcerptLength - 1] \in Whitespace
    /\ Len(ExcerptOf(failure_summary)) < ExcerptLength
    /\ ExcerptOf(failure_summary)[Len(ExcerptOf(failure_summary))] = Ellipsis
    /\ Strip(reason_arg) # <<>> /\ Strip(reason_arg) # reason_arg

(***************************************************************************)
(* Claims about the transcript (checked under SpecFmt).                    *)
(***************************************************************************)
\* how many forward blocks enclose position i of a transcript
BraceDepth(text, i) ==
    Cardinality({j \in 1..(i - 1) : text[j] = "{"})
        - Cardinality({j \in 1..(i - 1) : text[j] = "}"})

\* the heads (time and sender) of the entries of a transcript that stand in
\* no forward block
EntryHeads(text) ==
    {<<text[i], text[i + 1]>> :
         i \in {j \in 1..(Len(text) - 1) :
                    /\ \E t \in 0..(MaxBatch + 5) : text[j] = TimeToken(t)
                    /\ BraceDepth(text, j) = 0}}

\* the head of the entry of a message
HeadOf(msg) == <<TimeToken(msg.time), NameToken(msg.user_id)>>

\* the joined rendered text of the k-th message of a finished call
RenderedText(call, k) ==
    CollectMessageText(call.messages[k].message, call.messages, call.indent,
                       llm_service, returned)

\* the text starts with a configured wake prefix
HasWakePrefix(text) ==
    \E i \in 1..Len(wake_prefix) :
        /\ Len(wake_prefix[i]) <= Len(text)
        /\ \A j \in 1..Len(wake_prefix[i]) : text[j] = wake_prefix[i][j]

\* the messages of a finished call that the claims give an entry
Kept(call) ==
    {k \in 1..Len(call.messages) :
         /\ call.messages[k].user_id # my_id
         /\ RenderedText(call, k) # <<>>
         /\ ~HasWakePrefix(RenderedText(call, k))}

\* C22: format_messages emits no entry for a message whose sender is the
\* bot itself, whatever its parts, and exactly one entry for every other
\* message whose rendered text is non-empty and has no wake prefix; a batch
\* of 10 messages with one own message and nine plain others gives exactly
\* 9 entries.
C22_OwnMessagesLeftOut ==
    mpc = "done" =>
        LET call  == FormatCall(messages_in, 0)
            heads == EntryHeads(transcript)
        IN  /\ \A k \in 1..Len(messages_in) :
                   messages_in[k].user_id = my_id =>
                       HeadOf(messages_in[k]) \notin heads
            /\ heads = {HeadOf(messages_in[k]) : k \in Kept(call)}
            /\ Cardinality(heads) = Cardinality(Kept(call))
            /\ (/\ Len(messages_in) = 10
                /\ Cardinality({k \in 1..10 : messages_in[k].user_id = my_id}) = 1
                /\ Cardinality(Kept(call)) = 9) =>
                   Cardinality(heads) = 9

\* a batch of 10 text messages whose 5th is the bot's own gave 9 entries
C22_Witness ==
    /\ mpc = "done"
    /\ Len(messages_in) = 10
    /\ messages_in[5].user_id = my_id
    /\ \A k \in (1..10) \ {5} : messages_in[k].user_id # my_id
    /\ Cardinality(EntryHeads(transcript)) = 9

\* C23: no message whose joined rendered text starts with a configured wake
\* prefix, with or without the image marker directly behind the prefix and
\* whatever follows, has an entry in the transcript of the list it is in,
\* be it the list handed to format_messages or the content of a forward.
C23_WakeMessagesLeftOut ==
    \A r \in returned :
        \A k \in 1..Len(r.messages) :
            (/\ r.messages[k].user_id # my_id
             /\ HasWakePrefix(RenderedText(r, k))) =>
                HeadOf(r.messages[k]) \notin EntryHeads(r.text)

\* a message with content behind the second configured prefix, and one with
\* content behind the prefix and the image marker, were left out of a
\* transcript that has an entry
C23_Witness ==
    /\ mpc = "done"
    /\ Len(wake_prefix) = 2
    /\ Len(messages_in) = 2
    /\ \A k \in 1..2 : messages_in[k].user_id # my_id
    /\ \E k \in 1..2 :
           RenderedText(FormatCall(messages_in, 0), k)
               = <<"/", "image", " ", "c">>
    /\ \E k \in 1..2 :
           /\ messages_in[k].message # <<>>
           /\ messages_in[k].message[1].type = "forward"
           /\ Len(messages_in[k].message[1].content) = 3
    /\ Cardinality(EntryHeads(transcript)) = 1

\* how many reply quotes are open at position i of a text
ReplyDepth(text, i) ==
    Cardinality({j \in 1..i : text[j] = "[reply"})
        - Cardinality({j \in 1..i : text[j] = "]"})

\* the reply quotes of a rendered message that stand in no forward block
ReplyQuotes(text) ==
    {i \in 1..Len(text) : text[i] = "[reply" /\ BraceDepth(text, i) = 0}

\* the reply parts of a message
ReplyParts(msg) ==
    {i \in 1..Len(msg.message) : msg.message[i].type = "reply"}

\* C31: rendering reply parts ends for any reply references among the loaded
\* messages, a message replying to itself and two messages replying to each
\* other included: the quoted message is rendered without its own reply
\* parts, so no reply quote stands inside another one, and a message has as
\* many reply quotes as it has reply parts.
C31_ReplyOneLevelDeep ==
    \A r \in returned :
        /\ \A i \in 1..Len(r.text) : ReplyDepth(r.text, i) <= 1
        /\ \A k \in 1..Len(r.messages) :
               r.messages[k].user_id # my_id =>
                   Cardinality(ReplyQuotes(RenderedText(r, k)))
                       = Cardinality(ReplyParts(r.messages[k]))

\* two messages that reply to each other were formatted: each entry quotes
\* the other message's text once, without that message's reply part
C31_Witness ==
    /\ mpc = "done"
    /\ Len(messages_in) = 2
    /\ \A k \in 1..2 :
           /\ messages_in[k].user_id # my_id
           /\ Len(messages_in[k].message) = 2
           /\ messages_in[k].message[1].type = "reply"
           /\ messages_in[k].message[1].id = 3 - k
           /\ RenderedText(FormatCall(messages_in, 0), k)
                  = <<"[reply", ": ", DisplayName(2), ": ", "r", "]", " ",
                      "r">>
    /\ Cardinality(EntryHeads(transcript)) = 2

\* the list with the parts of every message of the bot replaced by `parts`
OwnPartsReplaced(msgs, parts) ==
    [i \in 1..Len(msgs) |->
         IF msgs[i].user_id = my_id
         THEN [msgs[i] EXCEPT !.message = parts]
         ELSE msgs[i]]

\* part lists put in the place of the parts of the bot's messages
OwnPartsTried == {<<>>, <<TextPart(<<"z">>)>>}

\* C32 as claimed: the transcript does not depend on the content of the
\* bot's own messages: the list with other parts in the bot's messages gives
\* the same transcript, also when another message replies to such a message.
C32_OwnContentIrrelevant ==
    mpc = "done" =>
        \A parts \in OwnPartsTried :
            FormatTranscript(OwnPartsReplaced(messages_in, parts), my_id, 0,
                             llm_service, returned) = transcript

\* the malformed share cards among the parts of a message
MalformedParts(msg) ==
    {i \in 1..Len(msg.message) :
         /\ msg.message[i].type = "json"
         /\ msg.message[i].text = <<"malformed">>}

\* a text without its blanks and without the placeholder of a share card
Solid(text) ==
    SelectSeq(text, LAMBDA c : c \notin {" ", "\n", "[unreadable share]"})

\* The part of C36 that holds: a share-card part whose payload is no JSON
\* (json.loads raises JSONDecodeError) gives the placeholder in the rendered
\* text of its message, once per such part; the other parts of the message
\* are rendered as they are without it; and the message has its entry in
\* the text format_messages returns.
DecodeErrorGivesPlaceholder ==
    \A r \in returned :
        \A k \in 1..Len(r.messages) :
            LET msg      == r.messages[k]
                rendered == RenderedText(r, k)
                others   == SelectSeq(msg.message,
                                LAMBDA q : ~(q.type = "json"
                                              /\ q.text = <<"malformed">>))
            IN  (msg.user_id # my_id /\ MalformedParts(msg) # {}) =>
                    /\ Cardinality({i \in 1..Len(rendered) :
                                        rendered[i] = "[unreadable share]"})
                           = Cardinality(MalformedParts(msg))
                    /\ Solid(rendered)
                           = Solid(CollectMessageText(others, r.messages,
                                                      r.indent, llm_service,
                                                      returned))
                    /\ ~HasWakePrefix(rendered) =>
                           HeadOf(msg) \in EntryHeads(r.text)

\* a message with such a share card between two text parts has its entry,
\* with the placeholder between the two texts
DecodeErrorSeen ==
    /\ mpc = "done"
    /\ Len(messages_in) = 1
    /\ messages_in[1].user_id # my_id
    /\ messages_in[1].message
           = <<TextPart(<<"a">>), JsonPart("malformed"), TextPart(<<"b">>)>>
    /\ transcript = <<TimeToken(1), NameToken(2), "a", " ",
                      "[unreadable share]", " ", "b">>

\* the payloads that cannot be read as a share card, and what stands for
\* an unreadable share card in a rendered text
UnparseableKinds == {"malformed", "not_string", "not_object", "bad_shape"}

SharePlaceholders == {"[unreadable share]", "[unparseable JSON content]"}

UnparseableParts(msg) ==
    {i \in 1..Len(msg.message) :
         /\ msg.message[i].type = "json"
         /\ msg.message[i].text[1] \in UnparseableKinds}

\* C36: a share-card part whose embedded payload is malformed (it is no
\* JSON, no string, no JSON object, or an object of the wrong shape) gives
\* an explicit placeholder in the rendered text of its message, once per
\* such part, and the other parts of the message are not dropped: the
\* message has its entry in the text format_messages returns, with the
\* texts of its other parts.
C36_MalformedShareIsPlaceholder ==
    \A r \in returned :
        \A k \in 1..Len(r.messages) :
            LET msg      == r.messages[k]
                rendered == RenderedText(r, k)
            IN  (msg.user_id # my_id /\ UnparseableParts(msg) # {}) =>
                    /\ Cardinality({i \in 1..Len(rendered) :
                                        rendered[i] \in SharePlaceholders})
                           = Cardinality(UnparseableParts(msg))
                    /\ \A i \in 1..Len(msg.message) :
                           msg.message[i].type = "text" =>
                               \E j \in 1..Len(rendered) :
                                   rendered[j] = msg.message[i].text[1]
                    /\ ~HasWakePrefix(rendered) =>
                           HeadOf(msg) \in EntryHeads(r.text)

\* C24 as claimed: formatting nested forwards recurses at most 16 levels: at
\* most 16 calls of format_messages are in progress below the outermost one.
C24_ForwardDepthBounded ==
    Len(call_stack) <= 1 + 16


(***************************************************************************)
(* Claims about the argument of a request (checked under SpecArg).         *)
(***************************************************************************)
\* parse_time_delta has returned
Parsed == apc \in {"parsed", "awaiting", "done"}

\* the (integer)(unit) tokens of the argument, letter case set aside
TokensOf(str) == FindAll([i \in 1..Len(str) |-> Lower(str[i])], 1)

\* the argument holds a digit directly followed by d, h or m in any case
HasToken(str) ==
    \E i \in 1..(Len(str) - 1) : str[i] \in Digits /\ Lower(str[i + 1]) \in Units

\* the days, hours and minutes of all tokens, added up unit by unit
RECURSIVE TokenSums(_)
TokenSums(parts) ==
    IF parts = <<>> THEN [days |-> 0, hours |-> 0, minutes |-> 0]
    ELSE LET rest  == TokenSums(Tail(parts))
             value == IntOf(parts[1][1])
             unit  == parts[1][2]
         IN  IF unit = "d" THEN [rest EXCEPT !.days = @ + value]
             ELSE IF unit = "h" THEN [rest EXCEPT !.hours = @ + value]
             ELSE [rest EXCEPT !.minutes = @ + value]

\* the tokens of the argument one after the other, all else left out
RECURSIVE TokensOnly(_)
TokensOnly(parts) ==
    IF parts = <<>> THEN <<>>
    ELSE parts[1][1] \o <<parts[1][2]>> \o TokensOnly(Tail(parts))

\* the argument is a decimal integer
IsInteger(str) == str # <<>> /\ \A i \in 1..Len(str) : str[i] \in Digits

\* C25 as claimed: get_messages_by_arg tries the duration first and asks the
\* store for at most one kind of retrieval: by duration only with a span
\* > 0, by count only when the duration parsing gave nothing and the
\* argument is an integer n with 1 <= n <= 500; for every other argument it
\* asks the store nothing and returns no message list with an error status.
C25_OneRetrievalOrError ==
    /\ Len(store_requests) <= 1
    /\ \A i \in 1..Len(store_requests) :
           /\ store_requests[i].kind = "by_time" =>
                  /\ time_delta.kind = "timedelta"
                  /\ time_delta.days > 0 \/ time_delta.seconds > 0
                  /\ store_requests[i].days = time_delta.days
                  /\ store_requests[i].seconds = time_delta.seconds
           /\ store_requests[i].kind = "by_count" =>
                  /\ time_delta.kind = "None"
                  /\ IsInteger(arg)
                  /\ 1 <= IntOf(arg) /\ IntOf(arg) <= 500
                  /\ store_requests[i].count = IntOf(arg)
    /\ apc # "raised"
    /\ (apc = "done" /\ store_requests = <<>>) =>
           /\ answer.messages = "None"
           /\ answer.status \in {"range_error", "format_error"}
    /\ (apc = "done" /\ store_requests # <<>>) => answer.messages = "list"

\* C26 as claimed: parse_time_delta returns the sum of all matched
\* (integer)(unit) tokens of its input; tokens of the same unit add up.
C26_TokensAddUp ==
    (Parsed /\ time_delta.kind = "timedelta") =>
        time_delta = TimeDelta(TokenSums(TokensOf(arg)))

\* C27 as claimed: parse_time_delta returns None exactly when the string
\* holds no (integer)(unit) token with unit d, h or m in any letter case,
\* ignores what stands around and between the tokens, and never raises.
C27_NoneIffNoTokenNeverRaises ==
    /\ (apc = "raised" /\ store_requests = <<>>) => arg_error # "OverflowError"
    /\ Parsed =>
           /\ time_delta.kind = "None" <=> ~HasToken(arg)
           /\ time_delta = ParseTimeDelta(TokensOnly(TokensOf(arg)))


(***************************************************************************)
(* Claims about the cleaning of the summary (checked under SpecClean).     *)
(***************************************************************************)
\* C37 as claimed: the summary text that is returned and rendered never
\* starts or ends with a code-fence marker and is trimmed: an answer wrapped
\* in a fence, with or without a language tag, comes back without them.
C37_NoFenceLeft ==
    kpc = "done" =>
        /\ ~StartsWith(cleaned, Fence)
        /\ ~EndsWith(cleaned, Fence)
        /\ cleaned = Strip(cleaned)

(***************************************************************************)
(* Claims about a scheduled summary run (checked under SpecSched).         *)
(***************************************************************************)
\* max_attempts as C40 states it
ClaimedMaxAttempts ==
    IF configured_attempts.kind = "int" /\ configured_attempts.value > 0
    THEN configured_attempts.value
    ELSE IF sched_max_retries + 1 >= 1 THEN sched_max_retries + 1 ELSE 1

\* the loop is over and no call of the orchestrator returned: every one of
\* the max_attempts calls was made and raised
AllAttemptsFailed ==
    /\ dpc \notin {"call", "loop", "sleep"}
    /\ Len(orchestrator_calls) = max_attempts
    /\ \A i \in 1..Len(orchestrator_calls) : Failed(orchestrator_calls[i])

\* the text that takes the place of the summary when all attempts failed
LastUserMessage ==
    LET n == Len(orchestrator_calls)
    IN  IF orchestrator_calls[n].outcome = "generation_error"
        THEN UserMessage(n) ELSE Apology

\* the number of calls is bounded, no call follows one that returned, and
\* the text message precedes the image message
BoundedAttemptsTextFirst ==
    /\ Len(orchestrator_calls) <= ClaimedMaxAttempts
    /\ \A i \in 1..Len(orchestrator_calls) :
           i < Len(orchestrator_calls) => Failed(orchestrator_calls[i])
    /\ Len(sent) <= 2
    /\ \A i \in 1..Len(sent) :
           sent[i].type = (IF i = 1 THEN "text" ELSE "image")

\* C40 as stated: a scheduled run calls the orchestrator at most
\* max_attempts times, no call follows one that returned, the text message
\* precedes the image message, and a run whose attempts all failed has, when
\* it is over, sent the user_message of the last error (or the apology).
C40_AlwaysSendsFallback ==
    /\ BoundedAttemptsTextFirst
    /\ (AllAttemptsFailed /\ dpc \in {"done", "raised", "cancelled"}) =>
           /\ sent # <<>>
           /\ sent[1] = [type |-> "text", body |-> LastUserMessage]

\* C40: a scheduled run calls the orchestrator at most max_attempts times
\* (scheduled_summary_max_attempts if that is a positive integer, else
\* summary_max_retries + 1, at least 1); no call follows one that returned;
\* the image message is never sent without the text message before it.
\* When every attempt failed, the text put in place of the summary is the
\* user_message of the last error if that is a SummaryGenerationError and
\* the fixed apology if not; it is rendered, and a run that reaches its end
\* has sent that text and then its rendering.  Nothing is sent before the
\* rendering is there, and a run that ends with an exception (render_t2i or
\* a send raised) or is cancelled has sent nothing, or the text alone, and
\* never any other text.
C40_BoundedAttemptsThenFallback ==
    /\ BoundedAttemptsTextFirst
    /\ dpc = "done" => Len(sent) = 2
    /\ dpc = "send_image" => Len(sent) = 1
    /\ dpc \in {"call", "loop", "sleep", "render", "send_text"} => sent = <<>>
    /\ AllAttemptsFailed =>
           LET fallback == <<[type |-> "text", body |-> LastUserMessage],
                             [type |-> "image",
                              body |-> RenderOf(LastUserMessage)]>>
           IN  /\ sched_summary = LastUserMessage
               /\ dpc = "render" => summary_image_url = <<>>
               /\ dpc \in {"send_text", "send_image", "done"} =>
                      summary_image_url = RenderOf(LastUserMessage)
               /\ dpc = "done" => sent = fallback
               /\ dpc = "send_image" => sent = SubSeq(fallback, 1, 1)
               /\ dpc \in {"raised", "cancelled"} =>
                      sent \in {<<>>, SubSeq(fallback, 1, 1)}

\* three attempts were configured and all failed, the second with another
\* exception and the last with a SummaryGenerationError; the run slept one
\* and two delays, and sent the user_message of the third attempt and then
\* its rendering
C40_Witness ==
    /\ dpc = "done"
    /\ configured_attempts = [kind |-> "int", value |-> 3]
    /\ sched_max_retries = 0
    /\ Len(orchestrator_calls) = 3
    /\ orchestrator_calls[2].outcome = "exception"
    /\ orchestrator_calls[3].outcome = "generation_error"
    /\ sched_waits = <<1, 2>>
    /\ sent = <<[type |-> "text", body |-> UserMessage(3)],
                [type |-> "image", body |-> RenderOf(UserMessage(3))]>>

====
